---------------------------- MODULE Spec2Model ----------------------------
(***************************************************************************)
(* A model of the span-tracking text patch engine of the i18n agent        *)
(* (src/i18n_script/i18n-agent_loc.py, class I18nAgent).                   *)
(*                                                                         *)
(* Texts are TLA+ strings.  Offsets are the 0-based, half-open character   *)
(* offsets of the Python source: Slice(s, a, b) is s[a:b].                 *)
(***************************************************************************)
EXTENDS Integers, Sequences, FiniteSets, TLC

VARIABLES
    text,                  \* should_translate: the argument
    result,                \* should_translate: the returned value ("" before the call)
    project_path,          \* self.config.project_path
    file_path,             \* str(file_path) of the file being processed
    disk,                  \* the content of that file on disk
    pc,                    \* the position of the run
    matches,               \* extract_strings_from_file: the matches not yet visited
    translation_keys_all,  \* the registry (before line 52: self.translation_keys)
    content,               \* the local variable content of the running method
    sorted_list,           \* refactor_component: sorted_translation_list_all
    loop_i,                \* refactor_component: the index of its replacement loop
    modified,              \* refactor_component: modified
    D,                     \* history: the content of the file when the run began
    spans0,                \* history: the spans of the registry when the loop began
    target_languages,      \* self.config.target_languages
    default_language,      \* self.config.default_language
    translation_keys,      \* I18nAgent.translation_keys after line 54 (the 'True' entries)
    translations,          \* I18nAgent.translations: language -> key -> text
    locale_files,          \* public/locales/<lang>/common.json on disk: language -> table
    change_dict,           \* ComplexI18nProcessor.change_dict
    lang_i,                \* the index of the loop over the target languages
    key_i,                 \* the index of the loop over the keys
    existing_translations, \* _create_translation_files: existing_translations
    failed,                \* history: the (language, key) whose LLM call raised
    events,                \* history: the writes and resolutions, in order
    fs,                    \* the source and backup files on disk: path -> content
    backup,                \* apply_i18n_changes: backup
    dry_run,               \* apply_i18n_changes: dry_run
    analysis_results,      \* apply_i18n_changes: analysis_results
    translation_files,     \* I18nApplicator.translation_files
    changes_applied,       \* I18nApplicator.changes_applied
    readable,              \* whether open() can read and decode the file of the run
    start_pos,             \* find_function_end: the argument start_pos
    end_pos,               \* find_function_end: the returned value (-1 before the call)
    symbols_dict,          \* _add_dependencies_recursively: symbols_dict
    context_keys,          \* _add_dependencies_recursively: the keys of context, in order
    visited,               \* _add_dependencies_recursively: visited
    stack,                 \* the running calls of add_deps, the innermost last
    expanded,              \* history: the symbols whose dependencies were gone through
    context0,              \* history: the keys of context when the method was called
    openai_client,         \* analyze_project_i18n: whether an openai_client is given
    main_thread,           \* whether analyze_project_i18n runs in the main thread
    alarm,                 \* the SIGALRM timer: "off", "armed" or "fired"
    llm_analysis,          \* analyze_i18n_needs: llm_analysis
    analysis,              \* what analyze_i18n_needs and analyze_project_i18n return
    fired_at               \* history: the position at which the alarm fired ("" if never)

(***************************************************************************)
(* Python string primitives                                                *)
(***************************************************************************)
Min(S) == CHOOSE x \in S : \A y \in S : x <= y

Max(S) == CHOOSE x \in S : \A y \in S : x >= y

\* s[a:b] for 0 <= a (slices past the end are clamped, as in Python)
Slice(s, a, b) ==
    LET hi == IF b > Len(s) THEN Len(s) ELSE b
    IN  IF a >= hi THEN "" ELSE SubSeq(s, a + 1, hi)

\* s[i], or "" past the end (no character)
At(s, i) == IF i >= 0 /\ i < Len(s) THEN SubSeq(s, i + 1, i + 1) ELSE ""

\* s.startswith(sub, i)
StartsAt(s, sub, i) == Slice(s, i, i + Len(sub)) = sub

\* s.find(sub, from): the first index >= from where sub occurs, or -1
Find(s, sub, from) ==
    LET hits == {i \in from..(Len(s) - Len(sub)) : StartsAt(s, sub, i)}
    IN  IF hits = {} THEN -1 ELSE Min(hits)

\* sub in s
Contains(s, sub) == Find(s, sub, 0) # -1

Digits == {"0", "1", "2", "3", "4", "5", "6", "7", "8", "9"}

LowerLetters == "abcdefghijklmnopqrstuvwxyz"

UpperLetters == "ABCDEFGHIJKLMNOPQRSTUVWXYZ"

Lowers == {At(LowerLetters, i) : i \in 0..25}

Uppers == {At(UpperLetters, i) : i \in 0..25}

\* \s of the re module
Whitespace == {" ", "\t", "\n", "\r", "\f"}

\* \w of the re module
IsWord(c) == c \in Lowers \cup Uppers \cup Digits \cup {"_"}

\* every character of s[a:b] satisfies the class C (a set of characters)
AllIn(s, a, b, C) == \A i \in a..(b - 1) : At(s, i) \in C

\* the first index >= i whose character is not whitespace (\s* is greedy and
\* nothing after it in the patterns below starts with whitespace)
SkipWs(s, i) ==
    LET stops == {j \in i..Len(s) : At(s, j) \notin Whitespace}
    IN  IF i >= Len(s) THEN i ELSE Min(stops)

\* s.strip(): the offsets [a, b) of the stripped text inside s
StripLo(s) == SkipWs(s, 0)

StripHi(s) ==
    LET ends == {j \in 0..Len(s) : j = 0 \/ At(s, j - 1) \notin Whitespace}
    IN  IF StripLo(s) = Len(s) THEN Len(s) ELSE Max(ends)

Strip(s) == Slice(s, StripLo(s), StripHi(s))

\* c.lower() of one character
LowerChar(c) ==
    IF c \in Uppers
    THEN At(LowerLetters, CHOOSE i \in 0..25 : At(UpperLetters, i) = c)
    ELSE c

RECURSIVE LowerStr(_)
LowerStr(s) ==
    IF s = "" THEN "" ELSE LowerChar(At(s, 0)) \o LowerStr(Slice(s, 1, Len(s)))

(***************************************************************************)
(* should_translate (i18n-agent_loc.py, lines 186-225)                     *)
(***************************************************************************)
\* The four values should_translate returns: the booleans False and True and
\* the strings 'False' and 'Maybe'.
PyFalse == "bool False"

PyTrue == "bool True"

StrFalse == "str 'False'"

StrMaybe == "str 'Maybe'"

\* Python truth of a returned value: only the boolean False is falsy; both
\* strings are non-empty and therefore true.
Truthy(r) == r # PyFalse

\* re.fullmatch(r'\s*\(?[\w\s,]*\)?\s*=>.*', t) with the arrow at offset a
ArrowPrefixOk(t, a) ==
    LET p0 == SkipWs(Slice(t, 0, a), 0)
        p1 == IF p0 < a /\ At(t, p0) = "(" THEN p0 + 1 ELSE p0
        pre == Slice(t, p1, a)
        e0 == StripHi(pre)
        e1 == IF e0 > 0 /\ At(pre, e0 - 1) = ")" THEN e0 - 1 ELSE e0
    IN  \A i \in 0..(e1 - 1) :
            IsWord(At(pre, i)) \/ At(pre, i) \in Whitespace \/ At(pre, i) = ","

IsPureArrow(t) ==
    \E a \in 0..(Len(t) - 2) :
        /\ StartsAt(t, "=>", a)
        /\ ~Contains(Slice(t, a + 2, Len(t)), "\n")
        /\ ArrowPrefixOk(t, a)

\* re.fullmatch(r'[\d\s\.,:;!?\-]+', t)
IsNumbersOrSpecial(t) ==
    /\ Len(t) >= 1
    /\ AllIn(t, 0, Len(t),
             Digits \cup Whitespace \cup {".", ",", ":", ";", "!", "?", "-"})

Quotes == {"\"", "'"}

\* re.fullmatch(r't\(\s*["\']([^"\']+)["\']\s*\)', t)
IsTCall(t) ==
    /\ StartsAt(t, "t(", 0)
    /\ LET q1 == SkipWs(t, 2)
           closers == {j \in (q1 + 2)..(Len(t) - 2) :
                          /\ At(t, j) \in Quotes
                          /\ AllIn(t, q1 + 1, j, {At(t, i) : i \in 0..(Len(t) - 1)} \ Quotes)
                          /\ SkipWs(t, j + 1) = Len(t) - 1}
       IN  /\ At(t, q1) \in Quotes
           /\ At(t, Len(t) - 1) = ")"
           /\ closers # {}

\* re.match(r'^<open>.*<close>$', t): '.' matches no newline, and '$' also
\* matches before one final newline
Wrapped(t, open, close) ==
    \E n \in {Len(t), Len(t) - 1} :
        /\ n = Len(t) \/ At(t, n) = "\n"
        /\ n >= Len(open) + Len(close)
        /\ StartsAt(t, open, 0)
        /\ StartsAt(t, close, n - Len(close))
        /\ ~Contains(Slice(t, Len(open), n - Len(close)), "\n")

\* The backquote has no literal in a TLA+ string: "^" stands for it, and no
\* text of the model holds a caret of its own.
Backtick == "^"

DeclKeywords == {"const", "let", "var", "function"}

\* re.match(r'^(const|let|var|function)\b', t)
StartsWithDecl(t) ==
    \E k \in DeclKeywords : StartsAt(t, k, 0) /\ ~IsWord(At(t, Len(k)))

code_like_patterns(t) ==
    \/ Wrapped(t, "{", "}")
    \/ Wrapped(t, "${", "}")
    \/ Wrapped(t, "(", ")")
    \/ Wrapped(t, Backtick, Backtick)
    \/ StartsWithDecl(t)

code_indicators ==
    {"{", "}", "(", ")", "=>", "function", "const", "let", "var", "$", Backtick}

\* A variant of the cascade that tests the code-like rules before the
\* t-call rule: with it the order of the rules is observable.
should_translate_code_first(t) ==
    IF t = "" \/ Len(t) < 2 THEN PyFalse
    ELSE IF Contains(t, "=>") /\ IsPureArrow(t) THEN StrFalse
    ELSE IF IsNumbersOrSpecial(t) THEN PyFalse
    ELSE IF code_like_patterns(t) THEN StrMaybe
    ELSE IF \E ind \in code_indicators : Contains(t, ind) THEN StrMaybe
    ELSE IF IsTCall(t) THEN PyFalse
    ELSE PyTrue

should_translate(t) ==
    IF t = "" \/ Len(t) < 2 THEN PyFalse
    ELSE IF Contains(t, "=>") /\ IsPureArrow(t) THEN StrFalse
    ELSE IF IsNumbersOrSpecial(t) THEN PyFalse
    ELSE IF IsTCall(t) THEN PyFalse
    ELSE IF code_like_patterns(t) THEN StrMaybe
    ELSE IF \E ind \in code_indicators : Contains(t, ind) THEN StrMaybe
    ELSE PyTrue

(***************************************************************************)
(* generate_translation_key (lines 227-241)                                *)
(***************************************************************************)
\* re.sub(r'[^a-zA-Z0-9\s]', '', t)
RECURSIVE KeepAlnumSpace(_)
KeepAlnumSpace(t) ==
    IF t = "" THEN ""
    ELSE LET c == At(t, 0)
             keep == c \in Lowers \cup Uppers \cup Digits \cup Whitespace
         IN  (IF keep THEN c ELSE "") \o KeepAlnumSpace(Slice(t, 1, Len(t)))

\* t.split(): the maximal runs of non-whitespace characters, in order
RECURSIVE Split(_)
Split(t) ==
    LET a == SkipWs(t, 0)
        ends == {j \in (a + 1)..Len(t) : j = Len(t) \/ At(t, j) \in Whitespace}
    IN  IF a >= Len(t) THEN <<>>
        ELSE <<Slice(t, a, Min(ends))>> \o Split(Slice(t, Min(ends), Len(t)))

\* sep.join(words)
RECURSIVE Join(_, _)
Join(sep, words) ==
    IF Len(words) = 0 THEN ""
    ELSE IF Len(words) = 1 THEN words[1]
    ELSE words[1] \o sep \o Join(sep, Tail(words))

\* The characters of the model's texts, in ASCII order from the space (32).
CodeChars ==
    " !\"#$%&'()*+,-./0123456789:;<=>?@ABCDEFGHIJKLMNOPQRSTUVWXYZ[\\]^_"

CharCode(c) ==
    IF c \in Lowers THEN 97 + (CHOOSE i \in 0..25 : At(LowerLetters, i) = c)
    ELSE IF c = "{" THEN 123
    ELSE IF c = "|" THEN 124
    ELSE IF c = "}" THEN 125
    ELSE IF c = "~" THEN 126
    ELSE IF c = "\n" THEN 10
    ELSE IF c = "\t" THEN 9
    ELSE IF c = "\r" THEN 13
    ELSE IF c = "\f" THEN 12
    ELSE 32 + (CHOOSE i \in 0..(Len(CodeChars) - 1) : At(CodeChars, i) = c)

HexDigits == "0123456789abcdef"

RECURSIVE Hex(_, _)
Hex(n, width) ==
    IF width = 0 THEN ""
    ELSE Hex(n \div 16, width - 1) \o At(HexDigits, n % 16)

\* hashlib.md5(s.encode()).hexdigest()[:6].  MD5 itself is not computed: a
\* polynomial digest of the same shape (six hexadecimal digits, a function
\* of the whole string) stands for it.
RECURSIVE DigestFrom(_, _)
DigestFrom(s, h) ==
    IF s = "" THEN h
    ELSE DigestFrom(Slice(s, 1, Len(s)), (h * 31 + CharCode(At(s, 0))) % 16777216)

Digest6(s) == Hex(DigestFrom(s, 7), 6)

generate_translation_key(t, context) ==
    LET words == Split(LowerStr(KeepAlnumSpace(t)))
        joined == Join("_", SubSeq(words, 1, IF Len(words) < 5 THEN Len(words) ELSE 5))
        base_key == IF joined = "" THEN "text" ELSE joined
    IN  base_key \o "_" \o Digest6(t \o "_" \o context)

(***************************************************************************)
(* The three patterns of extract_strings_from_file (lines 151-162) and     *)
(* re.finditer over them.  A match is [start, end, gs, ge]: the span of    *)
(* the whole match and the span of its last group.                         *)
(***************************************************************************)
Match(start, end, gs, ge) == [start |-> start, end |-> end, gs |-> gs, ge |-> ge]

\* r'>([^<\n][^<]+?)</' at offset s: the set of its matches (none or one)
JsxTextAt(c, s) ==
    LET q == Find(c, "<", s + 2)
    IN  IF /\ At(c, s) = ">"
           /\ At(c, s + 1) \notin {"<", "\n", ""}
           /\ q >= s + 3
           /\ At(c, q + 1) = "/"
        THEN {Match(s, q + 2, s + 1, q)}
        ELSE {}

\* the offset of the first quote character at or after i, or -1
FindQuote(c, i) ==
    LET hits == {j \in i..(Len(c) - 1) : At(c, j) \in Quotes}
    IN  IF hits = {} THEN -1 ELSE Min(hits)

\* ["\']([^"\']+?)["\'] with the opening quote at offset i: the offset of the
\* closing quote, or -1
QuotedEnd(c, i) ==
    LET q == FindQuote(c, i + 1)
    IN  IF At(c, i) \in Quotes /\ q >= i + 2 THEN q ELSE -1

\* the keyword alternatives match case-insensitively (re.IGNORECASE)
WordAt(c, words, s) ==
    {w \in words : LowerStr(Slice(c, s, s + Len(w))) = w}

PropNames ==
    {"title", "label", "placeholder", "alt", "value", "message", "description",
     "error", "success", "warning", "info"}

\* r'(?:title|...|info)\s*=\s*["\']([^"\']+?)["\']' at offset s
PropLiteralAt(c, s) ==
    LET ws == WordAt(c, PropNames, s)
    IN  IF ws = {} THEN {}
        ELSE LET w == CHOOSE x \in ws : TRUE
                 eq == SkipWs(c, s + Len(w))
                 q1 == SkipWs(c, eq + 1)
                 q2 == QuotedEnd(c, q1)
             IN  IF At(c, eq) = "=" /\ q2 # -1
                 THEN {Match(s, q2 + 1, q1 + 1, q2)}
                 ELSE {}

CallNames == {"alert", "notify", "console.log", "console.error", "console.warn"}

\* r'(?:alert|notify|console\.(?:log|error|warn))\s*\(\s*["\']([^"\']+?)["\']\s*\)'
CallLiteralAt(c, s) ==
    LET ws == WordAt(c, CallNames, s)
    IN  IF ws = {} THEN {}
        ELSE LET w == CHOOSE x \in ws : TRUE
                 par == SkipWs(c, s + Len(w))
                 q1 == SkipWs(c, par + 1)
                 q2 == QuotedEnd(c, q1)
                 close == SkipWs(c, q2 + 1)
             IN  IF At(c, par) = "(" /\ q2 # -1 /\ At(c, close) = ")"
                 THEN {Match(s, close + 1, q1 + 1, q2)}
                 ELSE {}

\* patterns[p] at offset s
ExtractPatternAt(p, c, s) ==
    CASE p = 1 -> JsxTextAt(c, s)
      [] p = 2 -> PropLiteralAt(c, s)
      [] p = 3 -> CallLiteralAt(c, s)

\* re.finditer(patterns[p], c) from offset pos: the leftmost match, then the
\* leftmost match after its end, and so on
RECURSIVE ExtractFindIter(_, _, _)
ExtractFindIter(p, c, pos) ==
    LET starts == {s \in pos..(Len(c) - 1) : ExtractPatternAt(p, c, s) # {}}
    IN  IF starts = {} THEN <<>>
        ELSE LET m == CHOOSE x \in ExtractPatternAt(p, c, Min(starts)) : TRUE
             IN  <<m>> \o ExtractFindIter(p, c, m.end)

\* every match in the order the two loops of lines 165-167 visit them
AllMatches(c) ==
    ExtractFindIter(1, c, 0) \o ExtractFindIter(2, c, 0) \o ExtractFindIter(3, c, 0)

(***************************************************************************)
(* The registry: self.translation_keys_all, a dict in insertion order,     *)
(* modelled as a sequence of entries that carry their key.                 *)
(***************************************************************************)
Entry(key, t, file, process_ind, span, occurrences) ==
    [key |-> key, text |-> t, file |-> file, process_ind |-> process_ind,
     span |-> span, occurrences |-> occurrences]

HasKey(reg, key) == \E n \in 1..Len(reg) : reg[n].key = key

IndexOf(reg, key) == CHOOSE n \in 1..Len(reg) : reg[n].key = key

\* reg.get(key, {}).get('occurrences', 0)
OccurrencesOf(reg, key) ==
    IF HasKey(reg, key) THEN reg[IndexOf(reg, key)].occurrences ELSE 0

\* reg[key] = entry: a present key keeps its place in the dict's order
Put(reg, entry) ==
    IF HasKey(reg, entry.key)
    THEN [reg EXCEPT ![IndexOf(reg, entry.key)] = entry]
    ELSE Append(reg, entry)

\* the body of the loop over the matches (lines 168-184) for one match
extract_match(reg, c, file, m) ==
    LET t == Strip(Slice(c, m.gs, m.ge))
        match_span == <<m.gs, m.ge>>
        process_ind == should_translate(t)
        key == generate_translation_key(t, file)
    IN  IF Truthy(process_ind)
        THEN Put(reg, Entry(key, t, file,
                            IF process_ind = StrMaybe THEN "Maybe" ELSE "True",
                            match_span, OccurrencesOf(reg, key) + 1))
        ELSE reg

(***************************************************************************)
(* update_spans_after_insertion (lines 363-389)                            *)
(***************************************************************************)
\* str(Path(path).relative_to(base)), for a path that lies under base
RelativeTo(path, base) ==
    IF base = "." THEN path ELSE Slice(path, Len(base) + 1, Len(path))

ShiftSpan(span, by) == <<span[1] + by, span[2] + by>>

update_spans_after_insertion(reg, file, project, insertion_pos, inserted_text_length) ==
    LET relative_file_path == RelativeTo(file, project)
    IN  [n \in 1..Len(reg) |->
            IF reg[n].file = relative_file_path /\ reg[n].span[1] >= insertion_pos
            THEN [reg[n] EXCEPT !.span = ShiftSpan(reg[n].span, inserted_text_length)]
            ELSE reg[n]]

(***************************************************************************)
(* find_function_end (lines 603-616)                                       *)
(***************************************************************************)
RECURSIVE FunctionEndFrom(_, _, _)
FunctionEndFrom(c, pos, brace_count) ==
    IF pos < Len(c) /\ brace_count > 0
    THEN FunctionEndFrom(c, pos + 1,
            IF At(c, pos) = "{" THEN brace_count + 1
            ELSE IF At(c, pos) = "}" THEN brace_count - 1
            ELSE brace_count)
    ELSE pos

\* the scan that stops behind the first closing brace, nested or not
find_function_end_first_close(c, from) ==
    IF Find(c, "}", from + 1) = -1 THEN Len(c) ELSE Find(c, "}", from + 1) + 1

find_function_end(c, from) == FunctionEndFrom(c, from + 1, 1)

(***************************************************************************)
(* The component patterns of add_translation_hooks_with_span_updates       *)
(* (lines 428-435).  A component match is [start, end, name].              *)
(***************************************************************************)
import_statement == "import { useTranslation } from 'react-i18next';\n"

hook_line == "\n  const { t } = useTranslation();\n"

Marker == "useTranslation"

Alnum == Lowers \cup Uppers \cup Digits

\* return\s*(?:\(|\<) at offset p
ReturnJsxAt(c, p) ==
    StartsAt(c, "return", p) /\ At(c, SkipWs(c, p + 6)) \in {"(", "<"}

\* the lookahead (?=(?:[^{}]|{[^}]*})*return\s*(?:\(|\<)) at offset p: the
\* repeated group has one way to pass each character (a brace opens a group
\* that runs to the next closing brace), so the offsets it can stop at form
\* one path
RECURSIVE LookaheadReturn(_, _)
LookaheadReturn(c, p) ==
    IF ReturnJsxAt(c, p) THEN TRUE
    ELSE IF At(c, p) \in {"", "}"} THEN FALSE
    ELSE IF At(c, p) = "{"
         THEN LET q == Find(c, "}", p + 1)
              IN  IF q = -1 THEN FALSE ELSE LookaheadReturn(c, q + 1)
    ELSE LookaheadReturn(c, p + 1)

\* \s+ at offset p: the offset after it, or -1
Ws1(c, p) == IF At(c, p) \in Whitespace THEN SkipWs(c, p) ELSE -1

\* (?:default\s+)? at offset e1, after export\s+
AfterDefault(c, e1) ==
    IF e1 # -1 /\ StartsAt(c, "default", e1) THEN {e1, Ws1(c, e1 + 7)} \ {-1}
    ELSE {e1} \ {-1}

\* (?:export\s+(?:default\s+)?)? at offset s: the offsets where the rest of
\* the pattern may start
AfterExport(c, s) ==
    {s} \cup (IF StartsAt(c, "export", s) THEN AfterDefault(c, Ws1(c, s + 6)) ELSE {})

\* ([A-Z][a-zA-Z0-9]*) at offset p: the offset after the name, or -1
NameEnd(c, p) ==
    IF At(c, p) \in Uppers
    THEN Min({j \in (p + 1)..Len(c) : At(c, j) \notin Alnum})
    ELSE -1

\* function\s+([A-Z][a-zA-Z0-9]*)\s*\([^)]*\)\s*\{(?=...) from offset k, one
\* piece of the pattern after the other: n0 and n1 bound the name, par and
\* close are the parentheses, brace is the opening brace
FunctionBrace(c, s, n0, n1, brace) ==
    IF At(c, brace) = "{" /\ LookaheadReturn(c, brace + 1)
    THEN {[start |-> s, end |-> brace + 1, name |-> Slice(c, n0, n1)]}
    ELSE {}

FunctionClose(c, s, n0, n1, close) ==
    IF close = -1 THEN {} ELSE FunctionBrace(c, s, n0, n1, SkipWs(c, close + 1))

FunctionParen(c, s, n0, n1, par) ==
    IF At(c, par) # "(" THEN {} ELSE FunctionClose(c, s, n0, n1, Find(c, ")", par + 1))

FunctionName(c, s, n0, n1) ==
    IF n1 = -1 THEN {} ELSE FunctionParen(c, s, n0, n1, SkipWs(c, n1))

FunctionWord(c, s, n0) ==
    IF n0 = -1 THEN {} ELSE FunctionName(c, s, n0, NameEnd(c, n0))

FunctionCoreAt(c, s, k) ==
    IF StartsAt(c, "function", k) THEN FunctionWord(c, s, Ws1(c, k + 8)) ELSE {}

\* const\s+([A-Z][a-zA-Z0-9]*)\s*=\s*(?:\([^)]*\)|[^=]+)\s*=>  from offset k:
\* the offsets just after the arrow, in the order the regex tries its two
\* alternatives (the parenthesised one first)
ArrowAt(c, a) == IF a >= 0 /\ StartsAt(c, "=>", a) THEN <<a + 2>> ELSE <<>>

ParenAlternative(c, w, close) ==
    IF At(c, w) = "(" /\ close # -1 THEN ArrowAt(c, SkipWs(c, close + 1)) ELSE <<>>

BareAlternative(c, u, eq2) == IF eq2 >= u + 1 THEN ArrowAt(c, eq2) ELSE <<>>

ArrowParams(c, u, w) ==
    ParenAlternative(c, w, Find(c, ")", w + 1)) \o BareAlternative(c, u, Find(c, "=", u))

ArrowEquals(c, eq) ==
    IF At(c, eq) # "=" THEN <<>> ELSE ArrowParams(c, eq + 1, SkipWs(c, eq + 1))

ArrowName(c, n1) == IF n1 = -1 THEN <<>> ELSE ArrowEquals(c, SkipWs(c, n1))

ArrowWord(c, n0) == IF n0 = -1 THEN <<>> ELSE ArrowName(c, NameEnd(c, n0))

ArrowHeadAt(c, k) ==
    IF StartsAt(c, "const", k) THEN ArrowWord(c, Ws1(c, k + 5)) ELSE <<>>

\* ... =>\s*\{(?=...) : the arrow component with a block body
BlockBrace(c, brace) ==
    IF At(c, brace) = "{" /\ LookaheadReturn(c, brace + 1) THEN brace + 1 ELSE -1

BlockTailAt(c, a) == BlockBrace(c, SkipWs(c, a))

\* ... =>\s*(?:\(?\s*<) : the arrow component with an implicit return
ImplicitAngle(c, p1) == IF At(c, p1) = "<" THEN p1 + 1 ELSE -1

ImplicitParen(c, p0) ==
    ImplicitAngle(c, IF At(c, p0) = "(" THEN SkipWs(c, p0 + 1) ELSE p0)

ImplicitTailAt(c, a) == ImplicitParen(c, SkipWs(c, a))

ConstName(c, n0) == Slice(c, n0, NameEnd(c, n0))

\* the first alternative of the head whose tail matches
FirstGoodTail(c, s, k, tails) ==
    IF \A n \in DOMAIN tails : tails[n] = -1 THEN {}
    ELSE {[start |-> s,
           end |-> tails[Min({n \in DOMAIN tails : tails[n] # -1})],
           name |-> ConstName(c, Ws1(c, k + 5))]}

TailsOf(c, implicit, heads) ==
    [n \in DOMAIN heads |->
        IF implicit THEN ImplicitTailAt(c, heads[n]) ELSE BlockTailAt(c, heads[n])]

ArrowCoreAt(c, s, k, implicit) ==
    FirstGoodTail(c, s, k, TailsOf(c, implicit, ArrowHeadAt(c, k)))

\* component_patterns[p] at offset s
ComponentCoreAt(p, c, s, k) ==
    CASE p = 1 -> FunctionCoreAt(c, s, k)
      [] p = 2 -> ArrowCoreAt(c, s, k, FALSE)
      [] p = 3 -> ArrowCoreAt(c, s, k, TRUE)

ComponentPatternAt(p, c, s) ==
    UNION {ComponentCoreAt(p, c, s, k) : k \in AfterExport(c, s)}

NoComponent == [start |-> -1, end |-> -1, name |-> ""]

TheMatch(S, none) == IF S = {} THEN none ELSE CHOOSE m \in S : TRUE

\* the leftmost match of component_patterns[p] at or after pos
ComponentSearch(p, c, pos) ==
    TheMatch(ComponentPatternAt(p, c,
                 Min({s \in pos..(Len(c) - 1) : ComponentPatternAt(p, c, s) # {}}
                     \cup {Len(c)})),
             NoComponent)

\* re.finditer(component_patterns[p], c): the leftmost match, then the
\* leftmost match after its end, and so on
RECURSIVE ComponentFindIter(_, _, _)
ComponentMatchesFrom(p, c, m) ==
    IF m = NoComponent THEN <<>> ELSE <<m>> \o ComponentFindIter(p, c, m.end)

ComponentFindIter(p, c, pos) == ComponentMatchesFrom(p, c, ComponentSearch(p, c, pos))

(***************************************************************************)
(* add_translation_hooks_with_span_updates (lines 419-520)                 *)
(***************************************************************************)
HocNames == {"withauth", "withrole", "withpermission", "hoc"}

\* any(re.search(p, body) for p in jsx_patterns) (lines 485-494)
has_jsx(body) ==
    \/ \E p \in 0..(Len(body) - 1) : ReturnJsxAt(body, p)
    \/ \E p \in 0..(Len(body) - 1) :
           At(body, p) = "<" /\ At(body, p + 1) \in Uppers \cup Lowers
    \/ Contains(body, "className=")
    \/ Contains(body, "onClick=")

\* lines 452-474: the offset just after the opening brace of the body, or -1
\* where the loop continues with the next match.  group0 is match.group(0).
AfterBrace(brace_pos) == IF brace_pos = -1 THEN -1 ELSE brace_pos + 1

BraceAfterArrow(c, arrow_pos) ==
    IF arrow_pos = -1 THEN -1 ELSE AfterBrace(Find(c, "{", arrow_pos))

InsertPosOf(c, m, group0) ==
    IF Contains(group0, "=>")
    THEN BraceAfterArrow(c, Find(c, "=>", m.start))
    ELSE AfterBrace(Find(c, "{", m.end - 1))

\* lines 496-508: the hook is inserted and the insertion is recorded
InsertHook(st, insert_pos) ==
    [content |-> Slice(st.content, 0, insert_pos) \o hook_line
                     \o Slice(st.content, insert_pos, Len(st.content)),
     insertions |-> Append(st.insertions,
                           [position |-> insert_pos, length |-> Len(hook_line)]),
     modified |-> TRUE]

\* lines 476-496: the body of the component decides
HookBody(st, insert_pos, component_body) ==
    IF Contains(component_body, Marker) THEN st
    ELSE IF has_jsx(component_body) THEN InsertHook(st, insert_pos)
    ELSE st

HookAt(st, insert_pos) ==
    IF insert_pos = -1 THEN st
    ELSE HookBody(st, insert_pos,
                  Slice(st.content, insert_pos,
                        find_function_end(st.content, insert_pos - 1)))

\* lines 445-508 for one match.  st is [content, insertions, modified].
HookOneMatch(st, m, group0) ==
    IF LowerStr(m.name) \in HocNames THEN st
    ELSE HookAt(st, InsertPosOf(st.content, m, group0))

\* for match in reversed(matches): the matches n, n-1, ..., 1 of the content
\* `searched` that finditer ran over
RECURSIVE HookMatches(_, _, _, _)
HookMatches(st, ms, n, searched) ==
    IF n = 0 THEN st
    ELSE HookMatches(HookOneMatch(st, ms[n], Slice(searched, ms[n].start, ms[n].end)),
                     ms, n - 1, searched)

\* one turn of `for pattern in component_patterns`: the pattern is searched
\* over the content the earlier patterns left
HookMatchesOf(st, ms) == HookMatches(st, ms, Len(ms), st.content)

HookPattern(st, p) == HookMatchesOf(st, ComponentFindIter(p, st.content, 0))

\* the turns of the loop for the two patterns of components with a block
\* body
BlockHooks(c) ==
    HookPattern(HookPattern([content |-> c, insertions |-> <<>>, modified |-> FALSE], 1), 2)

\* and the turn for the pattern of arrow components with an implicit return
HookPatterns(c) == HookPattern(BlockHooks(c), 3)

ReverseSeq(q) == [n \in 1..Len(q) |-> q[Len(q) + 1 - n]]

\* lines 512-518: the insertions in reversed order, each at its stored
\* position plus the cumulative offset
RECURSIVE SpansAfterInsertions(_, _, _, _, _)
SpansAfterInsertions(reg, file, project, ins, cumulative_offset) ==
    IF Len(ins) = 0 THEN reg
    ELSE SpansAfterInsertions(
            update_spans_after_insertion(reg, file, project,
                Head(ins).position + cumulative_offset, Head(ins).length),
            file, project, Tail(ins), cumulative_offset + Head(ins).length)

\* the returned (content, modified), with the registry it leaves and the
\* insertions it made (in the order made)
add_translation_hooks_with_span_updates(c, file, project, reg, previous_insertions_length) ==
    LET st == HookPatterns(c)
    IN  [content |-> st.content,
         modified |-> st.modified,
         insertions |-> st.insertions,
         registry |-> SpansAfterInsertions(reg, file, project,
                          ReverseSeq(st.insertions), previous_insertions_length)]

\* add_translation_hooks (lines 522-601): the same loops without the spans
add_translation_hooks(c) ==
    LET st == HookPatterns(c)
    IN  [content |-> st.content, modified |-> st.modified,
         insertions |-> st.insertions]

(***************************************************************************)
(* refactor_component (lines 619-671)                                      *)
(***************************************************************************)
\* _convert_dict_to_ordered_list: sorted() is stable, so entries with equal
\* span starts keep the order of the dict.  The result lists the indices of
\* the file's entries in the registry.
SortedIndices(reg, file) ==
    LET mine == {n \in 1..Len(reg) : reg[n].file = file}
        Before(a, b) == \/ reg[a].span[1] < reg[b].span[1]
                        \/ reg[a].span[1] = reg[b].span[1] /\ a < b
    IN  [r \in 1..Cardinality(mine) |->
            CHOOSE n \in mine : Cardinality({x \in mine : Before(x, n)}) = r - 1]

\* A variant that writes the call without the braces of a JSX expression.
ReplacedText_bare_call(key) == "t('" \o key \o "')"

\* f"{{t('{key}')}}"
ReplacedText(key) == "{t('" \o key \o "')}"

\* lines 644-653: the replacement of the candidate at place i of the sorted
\* list in the content ...
ReplaceInContent(c, entry) ==
    Slice(c, 0, entry.span[1]) \o ReplacedText(entry.key) \o Slice(c, entry.span[2], Len(c))

\* A variant that measures the key instead of the text written.
LenDiff_of_key(entry) == Len(entry.key) - (entry.span[2] - entry.span[1])

\* line 646: len_diff
LenDiff(entry) == Len(ReplacedText(entry.key)) - (entry.span[2] - entry.span[1])

\* ... and the shift of the spans of the candidates after it in the list
ShiftLater(reg, order, i, len_diff) ==
    LET later == {order[j] : j \in (i + 1)..Len(order)}
    IN  [n \in 1..Len(reg) |->
            IF n \in later THEN [reg[n] EXCEPT !.span = ShiftSpan(reg[n].span, len_diff)]
            ELSE reg[n]]

\* lines 657-659: all_translation_dict, the entries of the other files
\* followed by this file's in sorted order
AllTranslationDict(reg, order) ==
    LET mine == {order[j] : j \in 1..Len(order)}
        others == SelectSeq([n \in 1..Len(reg) |-> n], LAMBDA n : n \notin mine)
    IN  [n \in 1..Len(others) |-> reg[others[n]]] \o [j \in 1..Len(order) |-> reg[order[j]]]

(***************************************************************************)
(* generate_translations and generate_language_translations (lines         *)
(* 243-293).  A table of translations, a dict from key to text, is a       *)
(* sequence of [key, text] in insertion order.                             *)
(***************************************************************************)
\* lines 53-54: the entries of the registry with one process_ind
EntriesWith(reg, process_ind) == SelectSeq(reg, LAMBDA e : e.process_ind = process_ind)

KeyText(key, t) == [key |-> key, text |-> t]

\* table[key] = text of every entry, in the order of the entries
RECURSIVE PutAll(_, _)
PutAll(table, entries) ==
    IF entries = <<>> THEN table
    ELSE PutAll(Put(table, KeyText(Head(entries).key, Head(entries).text)), Tail(entries))

\* line 257
batch_size == 20

\* line 258: keys, the first batch_size keys; they form the one batch of
\* the loop of line 260
BatchKeys(keys) == SubSeq(keys, 1, Min({Len(keys), batch_size}))

\* What the translator does with one batch: the call raises, or the content
\* of its answer is not JSON, or it is an object without keys, or an object
\* with the keys of the batch and a text in the target language.
TranslatorOutcomes == {"raises", "invalid", "empty", "translated"}

\* the text the translator gives for a text, distinct from the text
Translated(t, lang) == lang \o ":" \o t

TranslatedTexts(batch, lang) ==
    [n \in 1..Len(batch) |-> KeyText(batch[n].key, Translated(batch[n].text, lang))]

\* A variant that keeps the table as it is.
Fallback_keeps_table(table, batch) == table

\* lines 289-293: the fallback, every key of the batch gets the original text
Fallback(table, batch) == PutAll(table, batch)

\* lines 276-293: the try statement on one batch
TranslateBatch(table, batch, lang, outcome) ==
    IF outcome \in {"raises", "invalid"} THEN Fallback(table, batch)
    ELSE IF outcome = "empty" THEN table
    ELSE PutAll(table, TranslatedTexts(batch, lang))

\* lines 254-293
generate_language_translations(table, keys, lang, outcome) ==
    IF keys = <<>> THEN table
    ELSE TranslateBatch(table, BatchKeys(keys), lang, outcome)

(***************************************************************************)
(* ComplexI18nProcessor (complex_i18n.py)                                  *)
(***************************************************************************)
\* _order_translations (lines 54-70) on the entries of one file: the sort
\* by file and start of the span is stable
OrderBy(maybe, order) == [j \in 1..Len(order) |-> maybe[order[j]]]

OrderTranslations(maybe, file) == OrderBy(maybe, SortedIndices(maybe, file))

\* lines 657-664 of the agent and line 109: possible_translations, the
\* 'Maybe' entries of the registry, ordered
OrderedTranslations(reg, file) == OrderTranslations(EntriesWith(reg, "Maybe"), file)

\* What the LLM answers about one candidate: "No", which is also what
\* _call_llm returns when the call raises (lines 213-227), or a
\* multi_change_dict for the key of the candidate.
LlmResponses == {"No", "multi_change_dict"}

\* the value of the key in the multi_change_dict
ChangeData(entry) ==
    [key |-> entry.key, text |-> entry.text, code |-> ReplacedText(entry.key),
     file |-> entry.file]

\* _process_llm_response (lines 229-255)
ProcessLlmResponse(changes, response, entry) ==
    IF response = "No" THEN changes ELSE Put(changes, ChangeData(entry))

\* lines 262-269: the changes of the file, a span and a code each.  The keys
\* enter change_dict in the order of ordered_translations, so the sort of
\* line 278 leaves them in that order.
ChangeOf(changes, entry) ==
    [span |-> entry.span, code |-> changes[IndexOf(changes, entry.key)].code]

FilesToUpdate(changes, ordered) ==
    LET valid == SelectSeq(ordered, LAMBDA e : HasKey(changes, e.key))
    IN  [n \in 1..Len(valid) |-> ChangeOf(changes, valid[n])]

\* lines 284-293: the sweep over the changes with the running offset
RECURSIVE UpdatedText(_, _, _)
UpdatedText(c, chs, offset) ==
    IF chs = <<>> THEN c
    ELSE UpdatedText(Slice(c, 0, Head(chs).span[1] + offset) \o Head(chs).code
                        \o Slice(c, Head(chs).span[2] + offset, Len(c)),
                     Tail(chs),
                     offset + Len(Head(chs).code) - (Head(chs).span[2] - Head(chs).span[1]))

\* _add_dependencies_recursively (lines 104-122).  A context is the
\* sequence of its keys: the value of a key is always symbols_dict[key].
\* A call of add_deps is [ctx, items, i, j]: current_context, the list of
\* its items taken when the loop began, the turn of the loop over the items
\* and the turn of the loop over the dependencies (0 before the test of
\* visited).
WithKey_of(ctx, key) ==
    IF \E n \in 1..Len(ctx) : ctx[n] = key THEN ctx ELSE Append(ctx, key)

\* add_deps(current_context) is called
Call(current_context) == [ctx |-> current_context, items |-> current_context, i |-> 1, j |-> 0]

\* line 120: add_deps({dep: symbols_dict[dep]}), a call on a new dict
NestedCall(dep) == Call(<<dep>>)

\* ctx_data.get('dependencies', [])
Dependencies(key) == symbols_dict[key].dependencies

\* lines 262-269 for a change_dict whose keys came in any order and name
\* several files: the files of the valid changes, in the order in which
\* they first appear in change_dict
RECURSIVE FilesToUpdateOf(_, _, _)
FilesToUpdateOf(changes, ordered, seen) ==
    IF changes = <<>> THEN seen
    ELSE FilesToUpdateOf(
             Tail(changes), ordered,
             IF /\ HasKey(ordered, Head(changes).key)
                /\ Head(changes).file # ""
                /\ \A n \in 1..Len(seen) : seen[n] # Head(changes).file
             THEN Append(seen, Head(changes).file)
             ELSE seen)

\* files_to_update[file]: a span and a code for each valid change of the
\* file, in the order of change_dict
ChangesToUpdate(changes, ordered, file) ==
    LET valid == SelectSeq(changes, LAMBDA ch : HasKey(ordered, ch.key) /\ ch.file = file)
    IN  [n \in 1..Len(valid) |->
            [span |-> ordered[IndexOf(ordered, valid[n].key)].span, code |-> valid[n].code]]

\* line 278 without the sort: the changes as they were supplied
SortByStart_as_supplied(chs) == chs

\* line 278: changes.sort(key=lambda x: x[0][0]), a stable sort by the start
\* of the span, ascending
SortByStart(chs) ==
    LET before(m, n) == \/ chs[m].span[1] < chs[n].span[1]
                        \/ chs[m].span[1] = chs[n].span[1] /\ m < n
        rank(n) == Cardinality({m \in 1..Len(chs) : before(m, n)}) + 1
    IN  [r \in 1..Len(chs) |-> chs[CHOOSE n \in 1..Len(chs) : rank(n) = r]]

\* lines 274-293: what _update_files writes to a file that reads as c
SpanSweep(c, chs) == UpdatedText(c, SortByStart(chs), 0)

\* What the LLM answers when _update_single_file hands it the content c of
\* a file: "No" (also when the call raises, lines 225-227), or a whole
\* content, here c under a line that sets i18n up.
FileResponses(c) == {"No", "import './i18n';\n" \o c}

\* _update_single_file (lines 310-339): the content of the file afterwards
UpdateSingleFile(c, response) ==
    IF LowerStr(Strip(response)) # "no" THEN response ELSE c

\* lines 348-357: translation_keys, the changes that have a code
ChangeKeys(changes) == [n \in 1..Len(changes) |-> KeyText(changes[n].key, changes[n].text)]

\* What the LLM does when asked for one translation: the call raises, or it
\* gives a text in the target language.
TranslationOutcomes == {"raises", "translated"}

\* _call_llm (lines 213-227) under _generate_translation
CallLlm(outcome, t, lang) == IF outcome = "raises" THEN "No" ELSE Translated(t, lang)

\* _generate_translation (lines 386-421)
GenerateTranslation(outcome, t, lang) == Strip(CallLlm(outcome, t, lang))

\* lines 374-378: the loop over the keys for one language; outcomes gives
\* what the LLM does for each key
RECURSIVE NewTranslations(_, _, _, _)
NewTranslations(existing, keys, lang, outcomes) ==
    IF keys = <<>> THEN existing
    ELSE NewTranslations(
             IF HasKey(existing, Head(keys).key) THEN existing
             ELSE Put(existing, KeyText(Head(keys).key,
                                        GenerateTranslation(Head(outcomes), Head(keys).text, lang))),
             Tail(keys), lang, Tail(outcomes))

\* lines 364-371: existing_translations
ExistingTranslations(files, lang) == IF lang \in DOMAIN files THEN files[lang] ELSE <<>>

(***************************************************************************)
(* I18nApplicator (apply_complex_changes.py).  The files on disk are a     *)
(* function from the paths that exist to their contents.                   *)
(***************************************************************************)
\* Path(project) / file
FullPath(project, file) == IF project = "." THEN file ELSE project \o "/" \o file

\* line 243: backup_path; Now is the time of the call, to the second
Now == "20250101_120000"

BackupPath(path) == path \o ".backup." \o Now

\* lines 188-193: the files of the changes, in the order of their first change
RECURSIVE FilesOf(_, _)
FilesOf(changes, seen) ==
    IF changes = <<>> THEN seen
    ELSE FilesOf(Tail(changes),
                 IF \E n \in 1..Len(seen) : seen[n] = Head(changes).file THEN seen
                 ELSE Append(seen, Head(changes).file))

\* changes_by_file[file]
ChangesOf(changes, file) == SelectSeq(changes, LAMBDA ch : ch.file = file)

\* line 215: the stable sort by line_start, descending
SortedChanges(changes) ==
    LET Before(a, b) == \/ changes[a].line_start > changes[b].line_start
                        \/ changes[a].line_start = changes[b].line_start /\ a < b
    IN  [r \in 1..Len(changes) |->
            changes[CHOOSE n \in 1..Len(changes) :
                        Cardinality({x \in 1..Len(changes) : Before(x, n)}) = r - 1]]

\* lines 261-264 and 150-154: the key after the namespace, and the namespace
KeyPart(suggested_key) ==
    IF Contains(suggested_key, ".")
    THEN Slice(suggested_key, Find(suggested_key, ".", 0) + 1, Len(suggested_key))
    ELSE suggested_key

Namespace(suggested_key) ==
    IF Contains(suggested_key, ".")
    THEN Slice(suggested_key, 0, Find(suggested_key, ".", 0))
    ELSE "common"

\* lines 271-274: is_jsx
IsJsx(current_lines) ==
    \E n \in 1..Len(current_lines) :
        \/ Contains(current_lines[n], "<")
        \/ Contains(current_lines[n], ">")
        \/ Contains(current_lines[n], "return")

\* _generate_i18n_replacement (lines 256-280)
GenerateI18nReplacement(change) ==
    IF IsJsx(change.current_lines_to_change)
    THEN "{t('" \o KeyPart(change.suggested_key) \o "')}"
    ELSE "t('" \o KeyPart(change.suggested_key) \o "')"

ReplaceAt(c, p, old, new) == Slice(c, 0, p) \o new \o Slice(c, p + Len(old), Len(c))

\* A variant that replaces every occurrence.
RECURSIVE ReplaceFirst_every_occurrence(_, _, _)
ReplaceFirst_every_occurrence(c, old, new) ==
    IF ~Contains(c, old) THEN c
    ELSE Slice(c, 0, Find(c, old, 0)) \o new
             \o ReplaceFirst_every_occurrence(Slice(c, Find(c, old, 0) + Len(old), Len(c)),
                                              old, new)

\* line 223: content.replace(original_text, replacement, 1)
ReplaceFirst(c, old, new) == ReplaceAt(c, Find(c, old, 0), old, new)

\* A variant that writes in a dry run too.
WriteFile_in_dry_run(files, path, c, dry) == (path :> c) @@ files

\* lines 249-251 and 356-358: the file is written unless the run is dry
WriteFile(files, path, c, dry) == IF dry THEN files ELSE (path :> c) @@ files

\* lines 241-245: the copy of the file as it is on disk
WithBackup(files, path, bk) ==
    IF bk THEN (BackupPath(path) :> files[path]) @@ files ELSE files

\* lines 239-252: the end of _apply_file_changes
SaveChanges(files, path, c, bk, dry) ==
    IF dry \/ c = files[path] THEN files
    ELSE WriteFile(WithBackup(files, path, bk), path, c, dry)

\* content.split('\n')
RECURSIVE SplitLines(_)
SplitLinesAt(c, p) ==
    IF p = -1 THEN <<c>>
    ELSE <<Slice(c, 0, p)>> \o SplitLines(Slice(c, p + 1, Len(c)))

SplitLines(c) == SplitLinesAt(c, Find(c, "\n", 0))

\* lines.insert(index, line)
InsertLine(lines, index, line) ==
    SubSeq(lines, 1, index) \o <<line>> \o SubSeq(lines, index + 1, Len(lines))

\* line 327: import_line.rstrip()
ImportLine == "import { useTranslation } from 'react-i18next';"

\* line 346
HookLine == "  const { t } = useTranslation();"

\* lines 330-339: the import goes after the last line that is an import
WithImport(lines) ==
    LET imports == {i \in 1..Len(lines) : StartsAt(Strip(lines[i]), "import ", 0)}
    IN  InsertLine(lines, IF imports = {} THEN 0 ELSE Max(imports), ImportLine)

\* lines 342-348: the hook goes after the first line that declares a function
WithHook(lines) ==
    LET declares == {i \in 1..Len(lines) :
                        \/ Contains(lines[i], "function ") /\ Contains(lines[i], "(")
                        \/ Contains(lines[i], "const ") /\ Contains(lines[i], "=>")}
    IN  IF declares = {} THEN lines ELSE InsertLine(lines, Min(declares), HookLine)

\* line 342
IsComponent(c) ==
    Contains(c, "function ") \/ (Contains(c, "const ") /\ Contains(c, "=>"))

\* lines 327-350: new_content
NewContent(c) ==
    Join("\n", IF IsComponent(c) THEN WithHook(WithImport(SplitLines(c)))
               ELSE WithImport(SplitLines(c)))

\* line 322
HasI18nImport(c) == Contains(c, "useTranslation") \/ Contains(c, "import { t }")

\* _add_i18n_import_to_file (lines 313-364)
AddI18nImport(files, path, dry) ==
    IF path \notin DOMAIN files THEN files
    ELSE IF HasI18nImport(files[path]) THEN files
    ELSE WriteFile(files, path, NewContent(files[path]), dry)

\* _load_translation_files (lines 118-137)
LoadedTranslations(langs, files) ==
    [l \in {langs[n] : n \in 1..Len(langs)} |-> ExistingTranslations(files, l)]

\* line 165
Placeholder(t, lang) == "TODO: Translate '" \o t \o "' to " \o lang

\* lines 146-166: new_translations[lang] of the required changes
RECURSIVE NewTranslationsOf(_, _, _, _)
NewTranslationsOf(required, lang, default, new) ==
    IF required = <<>> THEN new
    ELSE NewTranslationsOf(
             Tail(required), lang, default,
             IF Namespace(Head(required).suggested_key) # "common" THEN new
             ELSE Put(new, KeyText(KeyPart(Head(required).suggested_key),
                                   IF lang = default THEN Head(required).text
                                   ELSE Placeholder(Head(required).text, lang))))

\* the merge that assigns every new value, present key or not
RECURSIVE Merged_assigns(_, _)
Merged_assigns(table, new) ==
    IF new = <<>> THEN table
    ELSE Merged_assigns(Put(table, Head(new)), Tail(new))

\* lines 173-178: the keys the table lacks are added
RECURSIVE Merged(_, _)
Merged(table, new) ==
    IF new = <<>> THEN table
    ELSE Merged(IF HasKey(table, Head(new).key) THEN table ELSE Append(table, Head(new)),
                Tail(new))

\* _add_translations_to_files (lines 139-181)
AddTranslations(tables, required, langs, default) ==
    [l \in DOMAIN tables \cup
              (IF \E n \in 1..Len(required) : Namespace(required[n].suggested_key) = "common"
               THEN {default} ELSE {}) |->
        Merged(IF l \in DOMAIN tables THEN tables[l] ELSE <<>>,
               NewTranslationsOf(required, l, default, <<>>))]

\* the order of str
RECURSIVE StrLess(_, _)
StrLess(a, b) ==
    IF b = "" THEN FALSE
    ELSE IF a = "" THEN TRUE
    ELSE IF At(a, 0) # At(b, 0) THEN CharCode(At(a, 0)) < CharCode(At(b, 0))
    ELSE StrLess(Slice(a, 1, Len(a)), Slice(b, 1, Len(b)))

\* line 295: dict(sorted(translations.items()))
SortedTranslations(table) ==
    [r \in 1..Len(table) |->
        table[CHOOSE n \in 1..Len(table) :
                  Cardinality({x \in 1..Len(table) : StrLess(table[x].key, table[n].key)})
                      = r - 1]]

\* _save_translation_files (lines 282-304)
SavedTranslations(files, tables, dry) ==
    IF dry THEN files
    ELSE [l \in DOMAIN tables |-> SortedTranslations(tables[l])] @@ files

(***************************************************************************)
(* The run on one file: extract_strings_from_file, then refactor_component *)
(***************************************************************************)
\* the variables of the translation passes and of the applicator
translateVars == <<target_languages, default_language, translation_keys, translations,
                   locale_files, change_dict, lang_i, key_i, existing_translations,
                   failed, events>>

applyVars == <<fs, backup, dry_run, analysis_results, translation_files, changes_applied>>

\* the variables of the methods that are also run on their own
scanVars == <<start_pos, end_pos>>

depsVars == <<symbols_dict, context_keys, visited, stack, expanded, context0>>

alarmVars == <<openai_client, main_thread, alarm, llm_analysis, analysis, fired_at>>

ownVars == <<scanVars, depsVars, alarmVars>>

vars == <<text, result, project_path, file_path, disk, pc, matches,
          translation_keys_all, content, sorted_list, loop_i, modified, D, spans0,
          translateVars, applyVars, readable, ownVars>>

classifyVars == <<text, result>>

configVars == <<project_path, file_path, readable, ownVars>>

\* lines 147-148: the file is read; the matches are those finditer yields
\* over it, pattern by pattern
ExtractBegin ==
    /\ pc = "extract_begin"
    /\ readable
    /\ content' = disk
    /\ matches' = AllMatches(disk)
    /\ pc' = "extract"
    /\ UNCHANGED <<translateVars, applyVars, classifyVars, configVars, disk, translation_keys_all, sorted_list, loop_i,
                   modified, D, spans0>>

\* line 147: open() or read() raises on the file.  Neither
\* extract_strings_from_file nor the loop of extract_translatable_strings
\* (lines 49-50) nor run (lines 92-96) handles the exception: the run ends.
ExtractFail ==
    /\ pc = "extract_begin"
    /\ ~readable
    /\ pc' = "aborted"
    /\ UNCHANGED <<translateVars, applyVars, classifyVars, configVars, disk, matches,
                   translation_keys_all, content, sorted_list, loop_i, modified, D, spans0>>

\* lines 168-184: one match
ExtractMatch ==
    /\ pc = "extract"
    /\ matches # <<>>
    /\ translation_keys_all' =
           extract_match(translation_keys_all, content, file_path, Head(matches))
    /\ matches' = Tail(matches)
    /\ UNCHANGED <<translateVars, applyVars, classifyVars, configVars, disk, pc, content, sorted_list, loop_i, modified,
                   D, spans0>>

\* the loops end; extract_translatable_strings keeps the 'True' entries
\* in translation_keys and returns (lines 50-55)
ExtractEnd ==
    /\ pc = "extract"
    /\ matches = <<>>
    /\ translation_keys' = EntriesWith(translation_keys_all, "True")
    /\ lang_i' = 1
    /\ pc' = "generate"
    /\ UNCHANGED <<applyVars, classifyVars, configVars, disk, matches, translation_keys_all,
                   content, sorted_list, loop_i, modified, D, spans0, target_languages,
                   default_language, translations, locale_files, change_dict, key_i,
                   existing_translations, failed, events>>

\* lines 245-249: one turn of the loop of generate_translations, on the
\* default language
GenerateDefault ==
    /\ pc = "generate"
    /\ lang_i <= Len(target_languages)
    /\ target_languages[lang_i] = default_language
    /\ translations' = [translations EXCEPT ![default_language] = PutAll(@, translation_keys)]
    /\ lang_i' = lang_i + 1
    /\ UNCHANGED <<applyVars, classifyVars, configVars, disk, pc, matches, translation_keys_all,
                   content, sorted_list, loop_i, modified, D, spans0, target_languages,
                   default_language, translation_keys, locale_files, change_dict, key_i,
                   existing_translations, failed, events>>

\* lines 250-252: one turn of the loop on another language.  The call of
\* the translator, if there is a batch, is recorded in events.
GenerateLanguage ==
    /\ pc = "generate"
    /\ lang_i <= Len(target_languages)
    /\ target_languages[lang_i] # default_language
    /\ \E outcome \in TranslatorOutcomes :
           /\ translations' =
                  [translations EXCEPT ![target_languages[lang_i]] =
                       generate_language_translations(@, translation_keys,
                                                      target_languages[lang_i], outcome)]
           /\ events' =
                  IF translation_keys = <<>> THEN events
                  ELSE Append(events, [op |-> "translate", lang |-> target_languages[lang_i],
                                       at |-> lang_i, raised |-> (outcome = "raises")])
    /\ lang_i' = lang_i + 1
    /\ UNCHANGED <<applyVars, classifyVars, configVars, disk, pc, matches, translation_keys_all,
                   content, sorted_list, loop_i, modified, D, spans0, target_languages,
                   default_language, translation_keys, locale_files, change_dict, key_i,
                   existing_translations, failed>>

\* lines 295-309: create_translation_files, once generate_translations has
\* returned: the table of every target language is written
CreateTranslationFiles ==
    /\ pc = "generate"
    /\ lang_i > Len(target_languages)
    /\ locale_files' =
           [l \in {target_languages[n] : n \in 1..Len(target_languages)} |->
               translations[l]] @@ locale_files
    /\ pc' = "refactor_begin"
    /\ UNCHANGED <<applyVars, classifyVars, configVars, disk, matches, translation_keys_all,
                   content, sorted_list, loop_i, modified, D, spans0, target_languages,
                   default_language, translation_keys, translations, change_dict, lang_i,
                   key_i, existing_translations, failed, events>>

\* lines 634-640: the file is read again and the file's entries are sorted
RefactorBegin ==
    /\ pc = "refactor_begin"
    /\ content' = disk
    /\ modified' = FALSE
    /\ sorted_list' = SortedIndices(translation_keys_all, file_path)
    /\ loop_i' = 1
    /\ spans0' = [n \in 1..Len(translation_keys_all) |-> translation_keys_all[n].span]
    /\ pc' = "replace"
    /\ UNCHANGED <<translateVars, applyVars, classifyVars, configVars, disk, matches, translation_keys_all, D>>

\* lines 643-655: one turn of the loop on an entry with process_ind 'True'
ReplaceCandidate ==
    /\ pc = "replace"
    /\ loop_i <= Len(sorted_list)
    /\ LET entry == translation_keys_all[sorted_list[loop_i]]
       IN  /\ entry.process_ind = "True"
           /\ content' = ReplaceInContent(content, entry)
           /\ translation_keys_all' =
                  ShiftLater(translation_keys_all, sorted_list, loop_i, LenDiff(entry))
    /\ modified' = TRUE
    /\ loop_i' = loop_i + 1
    /\ UNCHANGED <<translateVars, applyVars, classifyVars, configVars, disk, pc, matches, sorted_list, D, spans0>>

\* one turn of the loop on an entry with process_ind 'Maybe'
KeepCandidate ==
    /\ pc = "replace"
    /\ loop_i <= Len(sorted_list)
    /\ translation_keys_all[sorted_list[loop_i]].process_ind # "True"
    /\ loop_i' = loop_i + 1
    /\ UNCHANGED <<translateVars, applyVars, classifyVars, configVars, disk, pc, matches, translation_keys_all,
                   content, sorted_list, modified, D, spans0>>

\* lines 657-662 and 395-407: the loop is over and the content lacks the
\* marker: the import statement is prepended and the spans are updated
InsertImport ==
    /\ pc = "replace"
    /\ loop_i > Len(sorted_list)
    /\ ~Contains(content, Marker)
    /\ content' = import_statement \o content
    /\ translation_keys_all' =
           update_spans_after_insertion(
               AllTranslationDict(translation_keys_all, sorted_list),
               file_path, project_path, 0, Len(import_statement))
    /\ modified' = TRUE
    /\ pc' = "hooks"
    /\ UNCHANGED <<translateVars, applyVars, classifyVars, configVars, disk, matches, sorted_list, loop_i, D, spans0>>

\* lines 410-411: the hooks are added
AddHooks ==
    /\ pc = "hooks"
    /\ LET r == add_translation_hooks_with_span_updates(
                    content, file_path, project_path, translation_keys_all,
                    Len(import_statement))
       IN  /\ content' = r.content
           /\ translation_keys_all' = r.registry
           /\ modified' = (modified \/ r.modified)
    /\ pc' = "write"
    /\ UNCHANGED <<translateVars, applyVars, classifyVars, configVars, disk, matches, sorted_list, loop_i, D, spans0>>

\* line 661: the content holds the marker already, nothing is inserted
SkipInsert ==
    /\ pc = "replace"
    /\ loop_i > Len(sorted_list)
    /\ Contains(content, Marker)
    /\ translation_keys_all' = AllTranslationDict(translation_keys_all, sorted_list)
    /\ pc' = "write"
    /\ UNCHANGED <<translateVars, applyVars, classifyVars, configVars, disk, matches, content, sorted_list, loop_i,
                   modified, D, spans0>>

\* lines 667-670: the content is written back if modified
WriteBack ==
    /\ pc = "write"
    /\ disk' = IF modified THEN content ELSE disk
    /\ pc' = "done"
    /\ UNCHANGED <<translateVars, applyVars, classifyVars, configVars, matches, translation_keys_all, content,
                   sorted_list, loop_i, modified, D, spans0>>

NextRefactor ==
    \/ RefactorBegin
    \/ ReplaceCandidate
    \/ KeepCandidate
    \/ InsertImport
    \/ AddHooks
    \/ SkipInsert
    \/ WriteBack

Next ==
    \/ ExtractBegin
    \/ ExtractFail
    \/ ExtractMatch
    \/ ExtractEnd
    \/ GenerateDefault
    \/ GenerateLanguage
    \/ CreateTranslationFiles
    \/ NextRefactor

(***************************************************************************)
(* The complex pass of the run: process_complex_i18n (lines 25-53 of       *)
(* complex_i18n.py), called by run once the simple pass is over            *)
(***************************************************************************)
\* lines 107-109 of the agent, 38-41: the candidates are ordered
ComplexBegin ==
    /\ pc = "done"
    /\ key_i' = 1
    /\ pc' = "process_with_llm"
    /\ UNCHANGED <<applyVars, classifyVars, configVars, disk, matches, translation_keys_all,
                   content, sorted_list, loop_i, modified, D, spans0, target_languages,
                   default_language, translation_keys, translations, locale_files,
                   change_dict, lang_i, existing_translations, failed, events>>

\* lines 159-197: one turn of the loop of _process_with_llm
ProcessWithLlm ==
    /\ pc = "process_with_llm"
    /\ key_i <= Len(OrderedTranslations(translation_keys_all, file_path))
    /\ \E response \in LlmResponses :
           change_dict' =
               ProcessLlmResponse(change_dict, response,
                                  OrderedTranslations(translation_keys_all, file_path)[key_i])
    /\ key_i' = key_i + 1
    /\ UNCHANGED <<applyVars, classifyVars, configVars, disk, pc, matches, translation_keys_all,
                   content, sorted_list, loop_i, modified, D, spans0, target_languages,
                   default_language, translation_keys, translations, locale_files,
                   lang_i, existing_translations, failed, events>>

\* _update_files (lines 257-306) and _update_single_file (308-339): the file
\* is written with the changes; the LLM then answers "no" about the file, or
\* with a content, for which the content of the file stands
UpdateFiles ==
    /\ pc = "process_with_llm"
    /\ key_i > Len(OrderedTranslations(translation_keys_all, file_path))
    /\ disk' = SpanSweep(disk,
                         FilesToUpdate(change_dict,
                                       OrderedTranslations(translation_keys_all, file_path)))
    /\ lang_i' = 1
    /\ pc' = "create_translation_files"
    /\ UNCHANGED <<applyVars, classifyVars, configVars, matches, translation_keys_all,
                   content, sorted_list, loop_i, modified, D, spans0, target_languages,
                   default_language, translation_keys, translations, locale_files,
                   change_dict, key_i, existing_translations, failed, events>>

\* lines 359-384: one turn of the loop of _create_translation_files over the
\* target languages
ComplexTranslations ==
    /\ pc = "create_translation_files"
    /\ lang_i <= Len(target_languages)
    /\ \E outcomes \in [1..Len(change_dict) -> TranslationOutcomes] :
           /\ existing_translations' =
                  NewTranslations(ExistingTranslations(locale_files, target_languages[lang_i]),
                                  ChangeKeys(change_dict), target_languages[lang_i], outcomes)
           /\ failed' = failed \cup
                  {<<target_languages[lang_i], change_dict[n].key>> :
                       n \in {m \in 1..Len(change_dict) : outcomes[m] = "raises"}}
    /\ locale_files' = (target_languages[lang_i] :> existing_translations') @@ locale_files
    /\ lang_i' = lang_i + 1
    /\ UNCHANGED <<applyVars, classifyVars, configVars, disk, pc, matches, translation_keys_all,
                   content, sorted_list, loop_i, modified, D, spans0, target_languages,
                   default_language, translation_keys, translations, change_dict, key_i,
                   events>>

\* the loop is over: process_complex_i18n returns
ComplexEnd ==
    /\ pc = "create_translation_files"
    /\ lang_i > Len(target_languages)
    /\ pc' = "finished"
    /\ UNCHANGED <<applyVars, classifyVars, configVars, disk, matches, translation_keys_all,
                   content, sorted_list, loop_i, modified, D, spans0, target_languages,
                   default_language, translation_keys, translations, locale_files,
                   change_dict, lang_i, key_i, existing_translations, failed, events>>

NextComplex ==
    \/ ComplexBegin
    \/ ProcessWithLlm
    \/ UpdateFiles
    \/ ComplexTranslations
    \/ ComplexEnd

(***************************************************************************)
(* analyze_project_i18n (complex_i18n_w_llm.py, lines 781-836) with        *)
(* I18nAnalyzer.analyze_i18n_needs (69-110).  translation_keys_all stands  *)
(* for possible_translations.  Of a result the model keeps                 *)
(* required_changes (the keys), summary['timeout'], metadata's             *)
(* analysis_failed and reason, and summary['analysis_method'].             *)
(***************************************************************************)
\* lines 816-824: the result of the handler of TimeoutError
TimeoutResult ==
    [required_changes |-> {}, timeout |-> TRUE, analysis_failed |-> TRUE, reason |-> "timeout",
     method |-> ""]

\* lines 102-110: the result of the handler of analyze_i18n_needs
FallbackResult ==
    [required_changes |-> {}, timeout |-> FALSE, analysis_failed |-> TRUE, reason |-> "",
     method |-> ""]

\* lines 828-836: the result of the outer handler
ExceptionResult ==
    [required_changes |-> {}, timeout |-> FALSE, analysis_failed |-> TRUE,
     reason |-> "exception", method |-> ""]

\* What the LLM answers (lines 268-298): a JSON text whose changes name
\* these original texts in tracked files and whose summary has no
\* analysis_method, or a text that is no JSON; or the call raises.
LlmAnswers == {<<>>, <<"Hello World">>, <<"Sign in", " Hello World ">>}

LlmOutcomes == {"json", "not json", "raises"}

\* _fallback_analysis (lines 307-351): the strings marked 'True' or longer
\* than three characters
FallbackTexts(possible) ==
    LET kept == SelectSeq(possible, LAMBDA e : e.process_ind = "True" \/ Len(e.text) > 3)
    IN  [n \in 1..Len(kept) |-> kept[n].text]

FallbackAnalysis(possible) ==
    [method |-> "fallback_pattern_matching", texts |-> FallbackTexts(possible)]

\* lines 353-364: the handler of _fallback_analysis
FailedAnalysis == [method |-> "failed", texts |-> <<>>]

\* _find_matching_translation (lines 485-490): the key of the first entry
\* whose stripped text is the stripped text t, as a set of at most one key
MatchingTranslation(possible, t) ==
    LET hits == {n \in 1..Len(possible) : Strip(possible[n].text) = Strip(t)}
    IN  IF hits = {} THEN {} ELSE {possible[Min(hits)].key}

\* _process_llm_response and _cross_reference_translations (374-483)
FinalAnalysis(possible, llm) ==
    [required_changes |-> UNION {MatchingTranslation(possible, llm.texts[n]) :
                                    n \in 1..Len(llm.texts)},
     timeout |-> FALSE, analysis_failed |-> FALSE, reason |-> "", method |-> llm.method]

\* The handler that takes an exception raised at the position p of the
\* run: the position at which the run goes on.  At "start" (line 810 and
\* lines 75-76) and at "needs_returned" (lines 810-811) only the handler of
\* line 813 encloses the position; the try of line 78 encloses the steps of
\* analyze_i18n_needs, the try of line 265 the API call and the parsing,
\* the try of line 313 the fallback analysis.
HandlerAt(p) ==
    CASE p \in {"start", "needs_returned"} -> "timed_out"
      [] p \in {"prepare", "call_llm", "process", "cross_reference"} -> "analysis_failed"
      [] p = "api_call" -> "fallback"
      [] p = "fallback" -> "fallback_failed"

\* the frame of the actions: everything but the variables of the function
\* and pc
alarmFrame == <<text, result, project_path, file_path, readable, scanVars, depsVars, disk,
                matches, translation_keys_all, content, sorted_list, loop_i, modified, D,
                spans0, translateVars, applyVars, openai_client, main_thread>>

\* lines 795-807: the analyzer is made and the alarm is set to 60 seconds;
\* outside the main thread signal.signal raises ValueError, which the
\* handler of line 826 takes
SetAlarm ==
    /\ pc = "analyze_project_i18n"
    /\ IF main_thread
       THEN /\ alarm' = "armed"
            /\ pc' = "start"
            /\ UNCHANGED analysis
       ELSE /\ analysis' = ExceptionResult
            /\ pc' = "returned"
            /\ UNCHANGED alarm
    /\ UNCHANGED <<alarmFrame, llm_analysis, fired_at>>

\* lines 810 and 75-78: analyze_i18n_needs is called and enters its try
EnterAnalysis ==
    /\ pc = "start"
    /\ pc' = "prepare"
    /\ UNCHANGED <<alarmFrame, alarm, llm_analysis, analysis, fired_at>>

\* lines 80-81: _prepare_analysis_context
PrepareContext ==
    /\ pc = "prepare"
    /\ pc' = "call_llm"
    /\ UNCHANGED <<alarmFrame, alarm, llm_analysis, analysis, fired_at>>

\* lines 199-264 and 304-305: the prompts are built; without a client the
\* fallback analysis is used
BuildPrompts ==
    /\ pc = "call_llm"
    /\ pc' = IF openai_client THEN "api_call" ELSE "fallback"
    /\ UNCHANGED <<alarmFrame, alarm, llm_analysis, analysis, fired_at>>

\* lines 265-302: the API call and the parsing of the answer
ApiCall ==
    /\ pc = "api_call"
    /\ \E outcome \in LlmOutcomes :
           IF outcome = "json"
           THEN /\ \E texts \in LlmAnswers : llm_analysis' = [method |-> "", texts |-> texts]
                /\ pc' = "process"
           ELSE /\ pc' = "fallback"
                /\ UNCHANGED llm_analysis
    /\ UNCHANGED <<alarmFrame, alarm, analysis, fired_at>>

\* lines 307-351: _fallback_analysis returns its analysis
Fallback_analysis ==
    /\ pc = "fallback"
    /\ llm_analysis' = FallbackAnalysis(translation_keys_all)
    /\ pc' = "process"
    /\ UNCHANGED <<alarmFrame, alarm, analysis, fired_at>>

\* lines 353-364: the handler of _fallback_analysis returns
FallbackFailed ==
    /\ pc = "fallback_failed"
    /\ llm_analysis' = FailedAnalysis
    /\ pc' = "process"
    /\ UNCHANGED <<alarmFrame, alarm, analysis, fired_at>>

\* lines 84-85: _process_llm_response
ProcessResponse ==
    /\ pc = "process"
    /\ pc' = "cross_reference"
    /\ UNCHANGED <<alarmFrame, alarm, llm_analysis, analysis, fired_at>>

\* lines 88-97: _cross_reference_translations; final_analysis is returned
CrossReference ==
    /\ pc = "cross_reference"
    /\ analysis' = FinalAnalysis(translation_keys_all, llm_analysis)
    /\ pc' = "needs_returned"
    /\ UNCHANGED <<alarmFrame, alarm, llm_analysis, fired_at>>

\* lines 99-110: the handler of analyze_i18n_needs returns its result
AnalysisFailed ==
    /\ pc = "analysis_failed"
    /\ analysis' = FallbackResult
    /\ pc' = "needs_returned"
    /\ UNCHANGED <<alarmFrame, alarm, llm_analysis, fired_at>>

\* lines 811-812: the alarm is cancelled and the result is returned
CancelAlarm ==
    /\ pc = "needs_returned"
    /\ alarm' = "off"
    /\ pc' = "returned"
    /\ UNCHANGED <<alarmFrame, llm_analysis, analysis, fired_at>>

\* lines 813-824: the handler of TimeoutError cancels the alarm and returns
\* the timeout result
TimedOut ==
    /\ pc = "timed_out"
    /\ alarm' = "off"
    /\ analysis' = TimeoutResult
    /\ pc' = "returned"
    /\ UNCHANGED <<alarmFrame, llm_analysis, fired_at>>

\* lines 802-803: the 60 seconds are over; timeout_handler raises
\* TimeoutError at the position the run has reached, and the innermost
\* handler that encloses the position takes it
AlarmFires ==
    /\ alarm = "armed"
    /\ pc \in {"start", "prepare", "call_llm", "api_call", "fallback", "process",
               "cross_reference", "needs_returned"}
    /\ alarm' = "fired"
    /\ fired_at' = pc
    /\ pc' = HandlerAt(pc)
    /\ UNCHANGED <<alarmFrame, llm_analysis, analysis>>

NextAlarm ==
    \/ SetAlarm
    \/ EnterAnalysis
    \/ PrepareContext
    \/ BuildPrompts
    \/ ApiCall
    \/ Fallback_analysis
    \/ FallbackFailed
    \/ ProcessResponse
    \/ CrossReference
    \/ AnalysisFailed
    \/ CancelAlarm
    \/ TimedOut
    \/ AlarmFires

\* _add_dependencies_recursively (lines 104-122) on its own.  The frame of
\* the actions: everything but the variables of the method and pc.
depsFrame == <<text, result, project_path, file_path, readable, scanVars, alarmVars, disk, matches,
               translation_keys_all, content, sorted_list, loop_i, modified, D, spans0,
               translateVars, applyVars, symbols_dict, context0>>

Top == stack[Len(stack)]

TopKey == Top.items[Top.i]

SetTop(frame) == [stack EXCEPT ![Len(stack)] = frame]

\* lines 110-111: the key of this turn was visited before
SkipVisited ==
    /\ pc = "add_deps"
    /\ stack # <<>>
    /\ Top.i <= Len(Top.items)
    /\ Top.j = 0
    /\ TopKey \in visited
    /\ stack' = SetTop([Top EXCEPT !.i = Top.i + 1])
    /\ UNCHANGED <<depsFrame, pc, context_keys, visited, expanded>>

\* lines 113-114 without line 112: the key is not marked
Expand_without_mark ==
    /\ pc = "add_deps"
    /\ stack # <<>>
    /\ Top.i <= Len(Top.items)
    /\ Top.j = 0
    /\ TopKey \notin visited
    /\ expanded' = Append(expanded, TopKey)
    /\ stack' = SetTop([Top EXCEPT !.j = 1])
    /\ UNCHANGED <<depsFrame, pc, context_keys, visited>>

\* lines 112-114: the key is marked and its dependencies are taken
Expand ==
    /\ pc = "add_deps"
    /\ stack # <<>>
    /\ Top.i <= Len(Top.items)
    /\ Top.j = 0
    /\ TopKey \notin visited
    /\ visited' = visited \cup {TopKey}
    /\ expanded' = Append(expanded, TopKey)
    /\ stack' = SetTop([Top EXCEPT !.j = 1])
    /\ UNCHANGED <<depsFrame, pc, context_keys>>

\* lines 115-120: a dependency that is a symbol is put into current_context
\* and add_deps is called on a dict that holds it alone
AddDependency ==
    /\ pc = "add_deps"
    /\ stack # <<>>
    /\ Top.i <= Len(Top.items)
    /\ Top.j >= 1
    /\ Top.j <= Len(Dependencies(TopKey))
    /\ Dependencies(TopKey)[Top.j] \in DOMAIN symbols_dict
    /\ LET dep == Dependencies(TopKey)[Top.j]
           ctx == WithKey_of(Top.ctx, dep)
       IN  stack' = Append(SetTop([Top EXCEPT !.ctx = ctx, !.j = Top.j + 1]),
                           NestedCall(dep))
    /\ UNCHANGED <<depsFrame, pc, context_keys, visited, expanded>>

\* line 116: a dependency that is no symbol of symbols_dict
SkipDependency ==
    /\ pc = "add_deps"
    /\ stack # <<>>
    /\ Top.i <= Len(Top.items)
    /\ Top.j >= 1
    /\ Top.j <= Len(Dependencies(TopKey))
    /\ Dependencies(TopKey)[Top.j] \notin DOMAIN symbols_dict
    /\ stack' = SetTop([Top EXCEPT !.j = Top.j + 1])
    /\ UNCHANGED <<depsFrame, pc, context_keys, visited, expanded>>

\* the loop over the dependencies is over: the next item
NextItem ==
    /\ pc = "add_deps"
    /\ stack # <<>>
    /\ Top.i <= Len(Top.items)
    /\ Top.j > Len(Dependencies(TopKey))
    /\ stack' = SetTop([Top EXCEPT !.i = Top.i + 1, !.j = 0])
    /\ UNCHANGED <<depsFrame, pc, context_keys, visited, expanded>>

\* a nested call of add_deps returns: its dict is dropped
ReturnNested ==
    /\ pc = "add_deps"
    /\ Len(stack) > 1
    /\ Top.i > Len(Top.items)
    /\ stack' = SubSeq(stack, 1, Len(stack) - 1)
    /\ UNCHANGED <<depsFrame, pc, context_keys, visited, expanded>>

\* lines 121-122: add_deps(context) returns and context is returned
ReturnContext ==
    /\ pc = "add_deps"
    /\ Len(stack) = 1
    /\ Top.i > Len(Top.items)
    /\ context_keys' = Top.ctx
    /\ stack' = <<>>
    /\ pc' = "returned"
    /\ UNCHANGED <<depsFrame, visited, expanded>>

NextDeps ==
    \/ SkipVisited
    \/ Expand
    \/ AddDependency
    \/ SkipDependency
    \/ NextItem
    \/ ReturnNested
    \/ ReturnContext

\* _update_files (lines 257-306) on its own, for a change_dict that names
\* several files.  translation_keys_all stands for ordered_translations,
\* fs for the files on disk, loop_i for the turn of the loop over
\* files_to_update.items() and key_i for the turn of the loop of line 303.
updateFrame == <<classifyVars, configVars, disk, matches, translation_keys_all,
                 content, sorted_list, modified, D, spans0, target_languages,
                 default_language, translation_keys, translations, locale_files,
                 change_dict, lang_i, existing_translations, failed,
                 backup, dry_run, analysis_results, translation_files, changes_applied>>

UpdateList == FilesToUpdateOf(change_dict, translation_keys_all, <<>>)

\* lines 272-298: the file of this turn is read, swept and written
SpanWrite ==
    /\ pc = "update_files"
    /\ loop_i <= Len(UpdateList)
    /\ UpdateList[loop_i] \in DOMAIN fs
    /\ LET file == UpdateList[loop_i]
           changes == ChangesToUpdate(change_dict, translation_keys_all, file)
       IN  /\ fs' = [fs EXCEPT ![file] = SpanSweep(fs[file], changes)]
           /\ events' = Append(events, [op |-> "span_write", file |-> file,
                                        original_text |-> fs[file], changes |-> changes])
    /\ key_i' = 1
    /\ pc' = "update_single_file"
    /\ UNCHANGED <<updateFrame, loop_i>>

\* lines 273 and 305-306: open raises for a file that does not exist; the
\* handler prints the error and the loop goes on to the next file
SpanWriteFails ==
    /\ pc = "update_files"
    /\ loop_i <= Len(UpdateList)
    /\ UpdateList[loop_i] \notin DOMAIN fs
    /\ loop_i' = loop_i + 1
    /\ UNCHANGED <<updateFrame, fs, events, key_i, pc>>

\* lines 302-303: one turn of the loop over every file of files_to_update,
\* inside the turn of the outer loop: _update_single_file on a file
UpdateSingle ==
    /\ pc = "update_single_file"
    /\ key_i <= Len(UpdateList)
    /\ LET file == UpdateList[key_i]
       IN  IF file \in DOMAIN fs
           THEN \E response \in FileResponses(fs[file]) :
                    /\ fs' = [fs EXCEPT ![file] = UpdateSingleFile(fs[file], response)]
                    /\ events' = Append(events, [op |-> "update_single_file", file |-> file,
                                                 original_text |-> fs[file], changes |-> <<>>])
           ELSE UNCHANGED <<fs, events>>
    /\ key_i' = key_i + 1
    /\ UNCHANGED <<updateFrame, loop_i, pc>>

\* the loop of line 303 is over: the next turn of the outer loop
UpdateSingleDone ==
    /\ pc = "update_single_file"
    /\ key_i > Len(UpdateList)
    /\ loop_i' = loop_i + 1
    /\ pc' = "update_files"
    /\ UNCHANGED <<updateFrame, fs, events, key_i>>

\* the outer loop is over: _update_files returns
UpdateFilesEnd ==
    /\ pc = "update_files"
    /\ loop_i > Len(UpdateList)
    /\ pc' = "updated"
    /\ UNCHANGED <<updateFrame, fs, events, key_i, loop_i>>

NextUpdate ==
    \/ SpanWrite
    \/ SpanWriteFails
    \/ UpdateSingle
    \/ UpdateSingleDone
    \/ UpdateFilesEnd

\* run (lines 92-115 of the agent)
NextRun ==
    \/ Next
    \/ NextComplex

(***************************************************************************)
(* apply_i18n_changes (lines 69-116 of apply_complex_changes.py)           *)
(***************************************************************************)
\* the variables of the run on one file and of the passes, which the
\* applicator leaves alone
fileVars == <<text, result, file_path, readable, disk, matches, translation_keys_all, modified, D,
              spans0, ownVars>>

passVars == <<translation_keys, translations, change_dict, lang_i, existing_translations,
              failed, events>>

configLangs == <<target_languages, default_language, project_path>>

callVars == <<backup, dry_run, analysis_results>>

\* the files of changes_by_file
ChangedFiles == FilesOf(analysis_results.sorted_changes_by_position, <<>>)

\* step 1 (lines 86-87)
LoadTranslationFiles ==
    /\ pc = "load_translation_files"
    /\ translation_files' = LoadedTranslations(target_languages, locale_files)
    /\ pc' = "add_translations"
    /\ UNCHANGED <<fileVars, passVars, configLangs, callVars, locale_files, fs,
                   changes_applied, content, sorted_list, loop_i, key_i>>

\* step 2 (lines 89-91)
AddTranslationsToFiles ==
    /\ pc = "add_translations"
    /\ translation_files' =
           AddTranslations(translation_files, analysis_results.required_changes,
                           target_languages, default_language)
    /\ key_i' = 1
    /\ pc' = "apply_source_file_changes"
    /\ UNCHANGED <<fileVars, passVars, configLangs, callVars, locale_files, fs,
                   changes_applied, content, sorted_list, loop_i>>

\* lines 203-208: the file of the changes does not exist
FileNotFound ==
    /\ pc = "apply_source_file_changes"
    /\ key_i <= Len(ChangedFiles)
    /\ FullPath(project_path, ChangedFiles[key_i]) \notin DOMAIN fs
    /\ key_i' = key_i + 1
    /\ UNCHANGED <<fileVars, passVars, configLangs, callVars, locale_files, fs, pc,
                   translation_files, changes_applied, content, sorted_list, loop_i>>

\* lines 203-215: the file is read and its changes are sorted
ApplyFileBegin ==
    /\ pc = "apply_source_file_changes"
    /\ key_i <= Len(ChangedFiles)
    /\ FullPath(project_path, ChangedFiles[key_i]) \in DOMAIN fs
    /\ content' = fs[FullPath(project_path, ChangedFiles[key_i])]
    /\ sorted_list' =
           SortedChanges(ChangesOf(analysis_results.sorted_changes_by_position,
                                   ChangedFiles[key_i]))
    /\ loop_i' = 1
    /\ pc' = "apply_change"
    /\ UNCHANGED <<fileVars, passVars, configLangs, callVars, locale_files, fs,
                   translation_files, changes_applied, key_i>>

\* lines 218-232: one turn of the loop, on a change whose text is in the
\* content
ApplyChange ==
    /\ pc = "apply_change"
    /\ loop_i <= Len(sorted_list)
    /\ Contains(content, sorted_list[loop_i].text)
    /\ content' = ReplaceFirst(content, sorted_list[loop_i].text,
                               GenerateI18nReplacement(sorted_list[loop_i]))
    /\ changes_applied' =
           Append(changes_applied,
                  [file |-> sorted_list[loop_i].file,
                   original |-> sorted_list[loop_i].text,
                   replacement |-> GenerateI18nReplacement(sorted_list[loop_i]),
                   line |-> sorted_list[loop_i].line_start])
    /\ loop_i' = loop_i + 1
    /\ UNCHANGED <<fileVars, passVars, configLangs, callVars, locale_files, fs, pc,
                   translation_files, sorted_list, key_i>>

\* lines 233-234: the text is not in the content
TextNotFound ==
    /\ pc = "apply_change"
    /\ loop_i <= Len(sorted_list)
    /\ ~Contains(content, sorted_list[loop_i].text)
    /\ loop_i' = loop_i + 1
    /\ UNCHANGED <<fileVars, passVars, configLangs, callVars, locale_files, fs, pc,
                   translation_files, changes_applied, content, sorted_list, key_i>>

\* lines 237-252: the loop is over; the backup is made and the file written
ApplyFileEnd ==
    /\ pc = "apply_change"
    /\ loop_i > Len(sorted_list)
    /\ fs' = SaveChanges(fs, FullPath(project_path, ChangedFiles[key_i]), content,
                         backup, dry_run)
    /\ key_i' = key_i + 1
    /\ pc' = "apply_source_file_changes"
    /\ UNCHANGED <<fileVars, passVars, configLangs, callVars, locale_files,
                   translation_files, changes_applied, content, sorted_list, loop_i>>

\* step 4 (lines 97-99), once the loop over the files is over
SaveTranslationFiles ==
    /\ pc = "apply_source_file_changes"
    /\ key_i > Len(ChangedFiles)
    /\ locale_files' = SavedTranslations(locale_files, translation_files, dry_run)
    /\ key_i' = 1
    /\ pc' = "add_i18n_imports"
    /\ UNCHANGED <<fileVars, passVars, configLangs, callVars, fs, translation_files,
                   changes_applied, content, sorted_list, loop_i>>

\* step 5 (lines 101-103, 306-311): one turn of the loop of _add_i18n_imports
AddI18nImportToFile ==
    /\ pc = "add_i18n_imports"
    /\ key_i <= Len(analysis_results.files_needing_changes)
    /\ fs' = AddI18nImport(fs, FullPath(project_path,
                                        analysis_results.files_needing_changes[key_i]),
                           dry_run)
    /\ key_i' = key_i + 1
    /\ UNCHANGED <<fileVars, passVars, configLangs, callVars, locale_files, pc,
                   translation_files, changes_applied, content, sorted_list, loop_i>>

\* lines 105-112: the summary is returned
ApplyEnd ==
    /\ pc = "add_i18n_imports"
    /\ key_i > Len(analysis_results.files_needing_changes)
    /\ pc' = "applied"
    /\ UNCHANGED <<fileVars, passVars, configLangs, callVars, locale_files, fs,
                   translation_files, changes_applied, content, sorted_list, loop_i, key_i>>

NextApply ==
    \/ LoadTranslationFiles
    \/ AddTranslationsToFiles
    \/ FileNotFound
    \/ ApplyFileBegin
    \/ ApplyChange
    \/ TextNotFound
    \/ ApplyFileEnd
    \/ SaveTranslationFiles
    \/ AddI18nImportToFile
    \/ ApplyEnd

\* the variables of the translation passes, while no pass runs
NoTranslate ==
    /\ target_languages = <<>>
    /\ default_language = ""
    /\ translation_keys = <<>>
    /\ translations = <<>>
    /\ locale_files = <<>>
    /\ change_dict = <<>>
    /\ lang_i = 1
    /\ key_i = 1
    /\ existing_translations = <<>>
    /\ failed = {}
    /\ events = <<>>

\* lines 24-33 and the configuration: the state of the translation passes
\* when a run on the target languages langs begins
StartTranslate(langs) ==
    /\ target_languages = langs
    /\ default_language = "en"
    /\ translation_keys = <<>>
    /\ translations = [l \in {langs[n] : n \in 1..Len(langs)} \cup {"en"} |-> <<>>]
    /\ locale_files = <<>>
    /\ change_dict = <<>>
    /\ lang_i = 1
    /\ key_i = 1
    /\ existing_translations = <<>>
    /\ failed = {}
    /\ events = <<>>

\* the variables of find_function_end, while it is not run on its own
NoScan ==
    /\ start_pos = 0
    /\ end_pos = -1

\* the variables of _add_dependencies_recursively, while it does not run
NoDeps ==
    /\ symbols_dict = <<>>
    /\ context_keys = <<>>
    /\ visited = {}
    /\ stack = <<>>
    /\ expanded = <<>>
    /\ context0 = <<>>

\* no analysis yet
NoAnalysis == [method |-> "", texts |-> <<>>]

NoResult ==
    [required_changes |-> {}, timeout |-> FALSE, analysis_failed |-> FALSE, reason |-> "",
     method |-> ""]

\* the variables of analyze_project_i18n, while it does not run
NoAlarm ==
    /\ openai_client = FALSE
    /\ main_thread = TRUE
    /\ alarm = "off"
    /\ llm_analysis = NoAnalysis
    /\ analysis = NoResult
    /\ fired_at = ""

\* the variables of the methods run on their own, while none of them runs
NoOwn == NoScan /\ NoDeps /\ NoAlarm

\* the variables of the applicator, while it does not run
NoApply ==
    /\ fs = <<>>
    /\ backup = FALSE
    /\ dry_run = FALSE
    /\ analysis_results = <<>>
    /\ translation_files = <<>>
    /\ changes_applied = <<>>

(***************************************************************************)
(* The inputs of the run                                                   *)
(***************************************************************************)
\* line 41: the file the run processes
ReactFile == "react-app3/pages/public/login.jsx"

\* project_path of the configuration: the working directory, or the
\* directory of the application
ProjectPaths == {".", "react-app3"}

\* The files are concatenations of at most MaxFrags of these pieces of JSX.
Fragments ==
    << "<p>Save</p>",
       "<h1> Hi </h1>",
       "<b>{count}</b>",
       "<i>x => y</i>",
       "<u>42</u>",
       "<a title=\"Save\">Go</a>",
       "function A(){return <p>Hi</p>}",
       "const B = () => {return <b>Ok</b>}",
       "const C = () => <em>{n}</em>;",
       "alert('No')",
       "// useTranslation\n",
       "<s>t('x')</s>",
       "function M(){return <b>{n}</b>}",
       "<p>alert('No')</p>" >>

MaxFrags == 2

RECURSIVE Concat(_)
Concat(q) == IF Len(q) = 0 THEN "" ELSE Head(q) \o Concat(Tail(q))

Documents ==
    {Concat([n \in 1..Len(pick) |-> Fragments[pick[n]]]) :
        pick \in UNION {[1..n -> 1..Len(Fragments)] : n \in 0..MaxFrags}}

\* config.py, lines 20-21: the target languages when none are configured
DefaultTargetLanguages == <<"en", "es">>

Init ==
    /\ NoOwn
    /\ StartTranslate(DefaultTargetLanguages)
    /\ NoApply
    /\ text = ""
    /\ result = ""
    /\ project_path \in ProjectPaths
    /\ file_path = ReactFile
    /\ readable \in BOOLEAN
    /\ disk \in Documents
    /\ D = disk
    /\ pc = "extract_begin"
    /\ matches = <<>>
    /\ translation_keys_all = <<>>
    /\ content = ""
    /\ sorted_list = <<>>
    /\ loop_i = 1
    /\ modified = FALSE
    /\ spans0 = <<>>

Spec == Init /\ [][Next]_vars

(***************************************************************************)
(* The whole run on a few files and lists of target languages              *)
(***************************************************************************)
LanguageLists == {DefaultTargetLanguages, <<"es", "en", "fr">>, <<"fr", "es">>}

RunDocuments ==
    { Fragments[1] \o Fragments[3],
      Fragments[13] \o Fragments[2],
      Fragments[11] \o Fragments[7],
      Fragments[3] \o Fragments[9] \o Fragments[1],
      Fragments[5] }

InitRun ==
    /\ NoOwn
    /\ \E langs \in LanguageLists : StartTranslate(langs)
    /\ NoApply
    /\ text = ""
    /\ result = ""
    /\ project_path \in ProjectPaths
    /\ file_path = ReactFile
    /\ readable \in BOOLEAN
    /\ disk \in RunDocuments
    /\ D = disk
    /\ pc = "extract_begin"
    /\ matches = <<>>
    /\ translation_keys_all = <<>>
    /\ content = ""
    /\ sorted_list = <<>>
    /\ loop_i = 1
    /\ modified = FALSE
    /\ spans0 = <<>>

SpecRun == InitRun /\ [][NextRun]_vars

(***************************************************************************)
(* The applicator on a few files and analysis results                      *)
(***************************************************************************)
AppFile == "src/App.jsx"

GoneFile == "src/Gone.jsx"

ApplyDocuments ==
    { "function App() {\n  return <p>Hello</p>;\n}",
      "import React from 'react';\nconst A = () => <b>Hello</b>;\n<i>Hello</i>",
      "import { useTranslation } from 'react-i18next';\n<p>Hello</p>",
      "<p>Bye</p>" }

\* the changes the analysis may list (sorted_changes_by_position)
Change(file, t, suggested_key, line_start, current_lines) ==
    [file |-> file, text |-> t, suggested_key |-> suggested_key,
     line_start |-> line_start, current_lines_to_change |-> current_lines]

ChangePool ==
    << Change(AppFile, "Hello", "common.hello", 2, <<"  return <p>Hello</p>;">>),
       Change(AppFile, "l", "l_key", 3, <<"x = 'l'">>),
       Change(GoneFile, "Hello", "common.hello", 1, <<"<p>Hello</p>">>),
       Change(AppFile, "Hello", "app.title", 2, <<"title: 'Hello'">>) >>

MaxChanges == 2

ChangeLists ==
    {[n \in 1..Len(pick) |-> ChangePool[pick[n]]] :
        pick \in UNION {[1..n -> 1..Len(ChangePool)] : n \in 0..MaxChanges}}

\* required_changes of the same analysis, a dict from the suggested key
RECURSIVE RequiredChanges(_, _)
RequiredChanges(changes, required) ==
    IF changes = <<>> THEN required
    ELSE RequiredChanges(Tail(changes),
                         Put(required, [key |-> Head(changes).suggested_key,
                                        suggested_key |-> Head(changes).suggested_key,
                                        text |-> Head(changes).text]))

AnalysisResults ==
    {[required_changes |-> RequiredChanges(changes, <<>>),
      sorted_changes_by_position |-> changes,
      files_needing_changes |-> files] :
        changes \in ChangeLists, files \in {<<>>, <<AppFile, GoneFile>>}}

\* the translation files when the applicator is called
LocaleFiles == {<<>>, [en |-> <<KeyText("hello", "Hi there")>>]}

InitApply ==
    /\ NoOwn
    /\ target_languages \in LanguageLists
    /\ default_language = "en"
    /\ locale_files \in LocaleFiles
    /\ translation_keys = <<>>
    /\ translations = <<>>
    /\ change_dict = <<>>
    /\ lang_i = 1
    /\ key_i = 1
    /\ existing_translations = <<>>
    /\ failed = {}
    /\ events = <<>>
    /\ text = ""
    /\ result = ""
    /\ file_path = ""
    /\ readable = TRUE
    /\ disk = ""
    /\ D = ""
    /\ matches = <<>>
    /\ translation_keys_all = <<>>
    /\ modified = FALSE
    /\ spans0 = <<>>
    /\ content = ""
    /\ sorted_list = <<>>
    /\ loop_i = 1
    /\ project_path \in ProjectPaths
    /\ fs \in {(FullPath(project_path, AppFile) :> d) : d \in ApplyDocuments}
    /\ backup \in BOOLEAN
    /\ dry_run \in BOOLEAN
    /\ analysis_results \in AnalysisResults
    /\ translation_files = <<>>
    /\ changes_applied = <<>>
    /\ pc = "load_translation_files"

SpecApply == InitApply /\ [][NextApply]_vars

(***************************************************************************)
(* should_translate on its own: the classification of one text             *)
(***************************************************************************)
\* The texts classified: the examples of the classification rules and every
\* string of at most MaxTextLen characters over TextAlphabet.
Examples == {"42", "{count}", "Submit", "t('x')", "x => y", "() => 1", "Save changes"}

TextAlphabet == {"a", "S", "4", "{", "}", " ", "=", ">", "(", "'", "."}

MaxTextLen == 3

RECURSIVE StringsOver(_, _)
StringsOver(A, n) ==
    IF n = 0 THEN {""}
    ELSE StringsOver(A, n - 1) \cup {u \o a : u \in StringsOver(A, n - 1), a \in A}

ClassifyTexts == Examples \cup StringsOver(TextAlphabet, MaxTextLen)

\* the variables of the run on a file, while no file is processed
NoRun ==
    /\ project_path = "."
    /\ file_path = ReactFile
    /\ readable = TRUE
    /\ disk = ""
    /\ D = ""
    /\ matches = <<>>
    /\ translation_keys_all = <<>>
    /\ content = ""
    /\ sorted_list = <<>>
    /\ loop_i = 1
    /\ modified = FALSE
    /\ spans0 = <<>>

InitClassify ==
    /\ NoOwn
    /\ NoTranslate
    /\ NoApply
    /\ text \in ClassifyTexts
    /\ result = ""
    /\ pc = "classify"
    /\ NoRun

\* the call should_translate(text) (lines 186-225)
Classify ==
    /\ pc = "classify"
    /\ result' = should_translate(text)
    /\ pc' = "classified"
    /\ UNCHANGED <<translateVars, applyVars, text, configVars, disk, matches, translation_keys_all, content,
                   sorted_list, loop_i, modified, D, spans0>>

NextClassify == Classify

SpecClassify == InitClassify /\ [][NextClassify]_vars

(***************************************************************************)
(* find_function_end on its own                                            *)
(***************************************************************************)
\* the characters that matter to the scan: the braces and another one
BraceAlphabet == {"{", "}", "x"}

\* the contents have at most MaxBraceLen characters
MaxBraceLen == 5

BraceTexts == StringsOver(BraceAlphabet, MaxBraceLen)

InitScan ==
    /\ NoTranslate
    /\ NoApply
    /\ text = ""
    /\ result = ""
    /\ project_path = "."
    /\ file_path = ReactFile
    /\ readable = TRUE
    /\ disk = ""
    /\ D = ""
    /\ pc = "find_function_end"
    /\ matches = <<>>
    /\ translation_keys_all = <<>>
    /\ content \in BraceTexts
    /\ sorted_list = <<>>
    /\ loop_i = 1
    /\ modified = FALSE
    /\ spans0 = <<>>
    /\ start_pos \in {i \in 0..(Len(content) - 1) : At(content, i) = "{"}
    /\ end_pos = -1
    /\ NoDeps
    /\ NoAlarm

\* the call find_function_end(content, start_pos) (lines 603-616)
FindFunctionEnd ==
    /\ pc = "find_function_end"
    /\ end_pos' = find_function_end(content, start_pos)
    /\ pc' = "found"
    /\ UNCHANGED <<translateVars, applyVars, classifyVars, project_path, file_path, readable,
                   disk, matches, translation_keys_all, content, sorted_list, loop_i,
                   modified, D, spans0, start_pos, depsVars, alarmVars>>

NextScan == FindFunctionEnd

SpecScan == InitScan /\ [][NextScan]_vars

(***************************************************************************)
(* _add_dependencies_recursively on its own                                *)
(***************************************************************************)
SymbolNames == <<"A", "B", "C", "D">>

\* symbols_dict has MaxSymbols symbols
MaxSymbols == 3

Symbols == {SymbolNames[n] : n \in 1..MaxSymbols}

\* The lists of dependencies: none, one symbol (the symbol itself, or one
\* that depends on it in turn, among them), two symbols, and a name that is
\* no symbol of symbols_dict followed by a symbol.
DependencyLists ==
    {<<>>, <<"B", "C">>, <<"useState", "A">>} \cup {<<sym>> : sym \in Symbols}

SymbolsDicts == [Symbols -> [dependencies : DependencyLists]]

\* lines 87-90: the symbols whose names occur in the text
Contexts == {<<>>, <<"A">>, <<"A", "B">>, <<"C">>}

InitDeps ==
    /\ NoTranslate
    /\ NoApply
    /\ NoScan
    /\ NoAlarm
    /\ text = ""
    /\ result = ""
    /\ project_path = "."
    /\ file_path = ReactFile
    /\ readable = TRUE
    /\ disk = ""
    /\ D = ""
    /\ pc = "add_deps"
    /\ matches = <<>>
    /\ translation_keys_all = <<>>
    /\ content = ""
    /\ sorted_list = <<>>
    /\ loop_i = 1
    /\ modified = FALSE
    /\ spans0 = <<>>
    /\ symbols_dict \in SymbolsDicts
    /\ context_keys \in Contexts
    /\ visited = {}
    /\ stack = <<Call(context_keys)>>
    /\ expanded = <<>>
    /\ context0 = context_keys

SpecDeps == InitDeps /\ [][NextDeps]_vars

\* the method runs on: a call that can take a step takes it
SpecDepsFair == SpecDeps /\ WF_vars(NextDeps)

(***************************************************************************)
(* generate_translations and create_translation_files on their own, from   *)
(* translation_keys of any number of keys up to MaxKeys                    *)
(***************************************************************************)
MaxKeys == 21

\* the n-th extracted key
ExtractedKey(n) ==
    Entry("text_" \o ToString(n), "Text " \o ToString(n), ReactFile, "True", <<3 * n, 3 * n + 2>>, 1)

NextTranslate ==
    \/ GenerateDefault
    \/ GenerateLanguage
    \/ CreateTranslationFiles

InitTranslate ==
    /\ NoOwn
    /\ NoApply
    /\ target_languages \in LanguageLists
    /\ default_language = "en"
    /\ \E n \in 0..MaxKeys : translation_keys = [k \in 1..n |-> ExtractedKey(k)]
    /\ translations = [l \in {target_languages[n] : n \in 1..Len(target_languages)} \cup {"en"} |->
                          <<>>]
    /\ locale_files = <<>>
    /\ change_dict = <<>>
    /\ lang_i = 1
    /\ key_i = 1
    /\ existing_translations = <<>>
    /\ failed = {}
    /\ events = <<>>
    /\ text = ""
    /\ result = ""
    /\ project_path = "."
    /\ file_path = ReactFile
    /\ readable = TRUE
    /\ disk = ""
    /\ D = ""
    /\ pc = "generate"
    /\ matches = <<>>
    /\ translation_keys_all = translation_keys
    /\ content = ""
    /\ sorted_list = <<>>
    /\ loop_i = 1
    /\ modified = FALSE
    /\ spans0 = <<>>

SpecTranslate == InitTranslate /\ [][NextTranslate]_vars

(***************************************************************************)
(* analyze_project_i18n on its own                                         *)
(***************************************************************************)
\* possible_translations: a string marked 'True', one marked 'Maybe' of
\* three characters, and one whose text is that of the first
PossibleStrings ==
    <<Entry("hello_world", "Hello World", AppFile, "True", <<10, 12>>, 2),
      Entry("count", "{n}", AppFile, "Maybe", <<15, 16>>, 1),
      Entry("greeting", "Hello World", ReactFile, "Maybe", <<8, 9>>, 1)>>

PossibleTranslationsOf == {SubSeq(PossibleStrings, a, b) : a \in 1..2, b \in 0..3}

InitAlarm ==
    /\ NoTranslate
    /\ NoApply
    /\ NoScan
    /\ NoDeps
    /\ text = ""
    /\ result = ""
    /\ project_path = "."
    /\ file_path = AppFile
    /\ readable = TRUE
    /\ disk = ""
    /\ D = ""
    /\ pc = "analyze_project_i18n"
    /\ matches = <<>>
    /\ translation_keys_all \in PossibleTranslationsOf
    /\ content = ""
    /\ sorted_list = <<>>
    /\ loop_i = 1
    /\ modified = FALSE
    /\ spans0 = <<>>
    /\ openai_client \in BOOLEAN
    /\ main_thread \in BOOLEAN
    /\ alarm = "off"
    /\ llm_analysis = NoAnalysis
    /\ analysis = NoResult
    /\ fired_at = ""

SpecAlarm == InitAlarm /\ [][NextAlarm]_vars

(***************************************************************************)
(* _update_files on its own, from a change_dict given with the files       *)
(***************************************************************************)
PageFile == "src/Page.jsx"

\* the files on disk
UpdateDocuments ==
    (AppFile :> "<p>{a} and {b}</p>") @@ (PageFile :> "<b>{n}</b>")

\* ordered_translations: the 'Maybe' candidates of the two files.  The span
\* of the candidate "a_and" overlaps the spans of "a" and of "b".
PossibleTranslations ==
    <<Entry("a", "{a}", AppFile, "Maybe", <<3, 6>>, 1),
      Entry("b", "{b}", AppFile, "Maybe", <<11, 14>>, 1),
      Entry("a_and", "a} and {", AppFile, "Maybe", <<4, 12>>, 1),
      Entry("n", "{n}", PageFile, "Maybe", <<3, 6>>, 1)>>

\* a value of change_dict: the key the LLM names, with a code and a file
LlmChange(key, code, file) == [key |-> key, text |-> key, code |-> code, file |-> file]

\* The values the LLM gives: a code for each candidate, longer or shorter
\* than the text it replaces, a code for a candidate under the path of a
\* file that does not exist, and a code for a symbol of the context, which
\* is no candidate.
LlmChanges ==
    {LlmChange("a", "{t('a')}", AppFile), LlmChange("b", "", AppFile),
     LlmChange("a_and", "&", AppFile), LlmChange("n", "{t('n', {n})}", PageFile),
     LlmChange("n", "{t('n')}", GoneFile), LlmChange("Button", "<Button/>", AppFile)}

\* at most MaxEdits keys in change_dict
MaxEdits == 3

\* change_dict: the values of at most MaxEdits different keys, in any order
ChangeDicts ==
    UNION {{q \in [1..k -> LlmChanges] : \A m, n \in 1..k : m # n => q[m].key # q[n].key} :
              k \in 0..MaxEdits}

InitUpdate ==
    /\ NoOwn
    /\ target_languages = <<>>
    /\ default_language = ""
    /\ translation_keys = <<>>
    /\ translations = <<>>
    /\ locale_files = <<>>
    /\ change_dict \in ChangeDicts
    /\ lang_i = 1
    /\ key_i = 1
    /\ existing_translations = <<>>
    /\ failed = {}
    /\ events = <<>>
    /\ fs = UpdateDocuments
    /\ backup = FALSE
    /\ dry_run = FALSE
    /\ analysis_results = <<>>
    /\ translation_files = <<>>
    /\ changes_applied = <<>>
    /\ text = ""
    /\ result = ""
    /\ project_path = "."
    /\ file_path = AppFile
    /\ readable = TRUE
    /\ disk = ""
    /\ D = ""
    /\ pc = "update_files"
    /\ matches = <<>>
    /\ translation_keys_all = PossibleTranslations
    /\ content = ""
    /\ sorted_list = <<>>
    /\ loop_i = 1
    /\ modified = FALSE
    /\ spans0 = <<>>

SpecUpdate == InitUpdate /\ [][NextUpdate]_vars

(***************************************************************************)
(* The two tools that merge into translation files which exist, either of  *)
(* which may be run: _create_translation_files of the processor, from a    *)
(* change_dict given, or the applicator                                    *)
(***************************************************************************)
\* the change_dicts of at most two entries
CreateDicts == {q \in ChangeDicts : Len(q) <= 2}

\* public/locales when the processor is called: no file, a file of one
\* language, files of two
CreateLocaleFiles ==
    {<<>>,
     [en |-> <<KeyText("a", "Apple")>>],
     [es |-> <<KeyText("a", "Manzana"), KeyText("z", "Zeta")>>, fr |-> <<KeyText("n", "No")>>]}

InitCreate ==
    /\ NoOwn
    /\ NoApply
    /\ target_languages \in LanguageLists
    /\ default_language = "en"
    /\ translation_keys = <<>>
    /\ translations = <<>>
    /\ locale_files \in CreateLocaleFiles
    /\ change_dict \in CreateDicts
    /\ lang_i = 1
    /\ key_i = 1
    /\ existing_translations = <<>>
    /\ failed = {}
    /\ events = <<>>
    /\ text = ""
    /\ result = ""
    /\ project_path = "."
    /\ file_path = AppFile
    /\ readable = TRUE
    /\ disk = ""
    /\ D = ""
    /\ pc = "create_translation_files"
    /\ matches = <<>>
    /\ translation_keys_all = <<>>
    /\ content = ""
    /\ sorted_list = <<>>
    /\ loop_i = 1
    /\ modified = FALSE
    /\ spans0 = <<>>

InitMerge == InitCreate \/ InitApply

NextMerge ==
    \/ ComplexTranslations
    \/ ComplexEnd
    \/ NextApply

SpecMerge == InitMerge /\ [][NextMerge]_vars

(***************************************************************************)
(* refactor_component on its own, from a registry given with the file      *)
(***************************************************************************)
OtherFile == "react-app3/pages/public/signup.jsx"

\* a file of a directory of the application that bears the application's
\* name: relative to "react-app3" its path reads as the path of ReactFile
NestedFile == "react-app3/react-app3/pages/public/login.jsx"

\* the file refactor_component is called on, with the files that own the
\* candidates of the registry
RefactorFiles == {<<ReactFile, {ReactFile, OtherFile}>>, <<NestedFile, {NestedFile, ReactFile}>>}

\* The files: the text of the worked example, ten characters, and a text
\* that holds the marker.
RefactorDocuments == {"Hello World today", "0123456789", "we useTranslation"}

SpanChoices == {<<0, 5>>, <<3, 8>>, <<0, 11>>, <<8, 10>>, <<12, 17>>}

CandidateKeys == <<"greeting", "farewell", "title", "label">>

\* at most MaxCands candidates
MaxCands == 2

\* The registries: candidate n has the key CandidateKeys[n], a span inside
\* the file, the text the span denotes, and belongs to this file or another.
Registries(d, files) ==
    LET spans == {sp \in SpanChoices : sp[2] <= Len(d)}
        entries(n) == {Entry(CandidateKeys[n], Slice(d, sp[1], sp[2]), f, ind, sp, 1) :
                          sp \in spans, f \in files,
                          ind \in {"True", "Maybe"}}
    IN  UNION {{q \in [1..k -> UNION {entries(n) : n \in 1..k}] :
                   \A n \in 1..k : q[n] \in entries(n)} : k \in 0..MaxCands}

InitRefactor ==
    /\ NoOwn
    /\ NoTranslate
    /\ NoApply
    /\ text = ""
    /\ result = ""
    /\ project_path \in ProjectPaths
    /\ readable = TRUE
    /\ disk \in RefactorDocuments
    /\ D = disk
    /\ pc = "refactor_begin"
    /\ matches = <<>>
    /\ \E f \in RefactorFiles :
           /\ file_path = f[1]
           /\ translation_keys_all \in Registries(disk, f[2])
    /\ content = ""
    /\ sorted_list = <<>>
    /\ loop_i = 1
    /\ modified = FALSE
    /\ spans0 = <<>>

SpecRefactor == InitRefactor /\ [][NextRefactor]_vars

(***************************************************************************)
(* add_translation_hooks on its own, called twice on a content             *)
(***************************************************************************)
\* The contents are concatenations of at most MaxHookFrags of these pieces.
HookFragments ==
    << "function A(){return <p>Hi</p>}",
       "const B = () => {return <b>Ok</b>}",
       "const C = () => <em>{n}</em>;",
       "const Hoc = () => {return <a>x</a>}",
       "function Z(){return 1}",
       "const A = (cb = e => {return <i/>}) => { if (x) { const B = () => {return <b>x</b>} } }",
       "import { useTranslation } from 'react-i18next';\n",
       "\n",
       "const L = () => <u>{f(<b/>)}</u>;" >>

MaxHookFrags == 2

HookDocuments ==
    {Concat([n \in 1..Len(pick) |-> HookFragments[pick[n]]]) :
        pick \in UNION {[1..n -> 1..Len(HookFragments)] : n \in 0..MaxHookFrags}}

InitHooks ==
    /\ NoOwn
    /\ NoTranslate
    /\ NoApply
    /\ text = ""
    /\ result = ""
    /\ project_path = "."
    /\ file_path = ReactFile
    /\ readable = TRUE
    /\ disk \in HookDocuments
    /\ D = disk
    /\ pc = "hooks_first"
    /\ matches = <<>>
    /\ translation_keys_all = <<>>
    /\ content = disk
    /\ sorted_list = <<>>
    /\ loop_i = 1
    /\ modified = FALSE
    /\ spans0 = <<>>

\* content, modified = self.add_translation_hooks(content)
HooksFirst ==
    /\ pc = "hooks_first"
    /\ content' = add_translation_hooks(content).content
    /\ modified' = add_translation_hooks(content).modified
    /\ pc' = "patched"
    /\ UNCHANGED <<translateVars, applyVars, classifyVars, configVars, disk, matches, translation_keys_all,
                   sorted_list, loop_i, D, spans0>>

\* the same call on the content the first call returned
HooksAgain ==
    /\ pc = "patched"
    /\ content' = add_translation_hooks(content).content
    /\ modified' = add_translation_hooks(content).modified
    /\ pc' = "repatched"
    /\ UNCHANGED <<translateVars, applyVars, classifyVars, configVars, disk, matches, translation_keys_all,
                   sorted_list, loop_i, D, spans0>>

NextHooks ==
    \/ HooksFirst
    \/ HooksAgain

SpecHooks == InitHooks /\ [][NextHooks]_vars

(***************************************************************************)
(* Properties of the classification                                        *)
(***************************************************************************)
\* C9: should_translate, its rules evaluated in order and the first match
\* winning, returns False for "42" (rejected), 'Maybe' for "{count}", True
\* for "Submit" (accepted) and False for "t('x')" (rejected by the t-call
\* rule although the text also looks like code).
C9_ClassificationExamples ==
    pc = "classified" =>
        /\ text = "42" => result = PyFalse
        /\ text = "{count}" => result = StrMaybe
        /\ text = "Submit" => result = PyTrue
        /\ text = "t('x')" => result = PyFalse

\* the t-call example has been classified and rejected
C9_Witness == pc = "classified" /\ text = "t('x')" /\ result = PyFalse

(***************************************************************************)
(* Properties of the replacement loop of refactor_component                *)
(***************************************************************************)
\* the candidates of the file being processed
Mine == {n \in 1..Len(translation_keys_all) : translation_keys_all[n].file = file_path}

\* the half-open spans a and b share a character
Overlap(a, b) == a[1] < b[2] /\ b[1] < a[2]

\* the loop of lines 643-655 has visited every candidate of the file
LoopDone == pc = "replace" /\ loop_i > Len(sorted_list)

NonOverlapping ==
    \A m, n \in Mine : m # n => ~Overlap(spans0[m], spans0[n])

\* C1: offset correctness.  When the spans of the file's candidates are
\* pairwise non-overlapping, then after every 'True' candidate has been
\* replaced in ascending order of start, the span of every 'Maybe' candidate
\* denotes in the rewritten content the text its original span denoted in
\* the original content D.
C1_OffsetCorrectness ==
    (LoopDone /\ NonOverlapping) =>
        \A n \in Mine :
            translation_keys_all[n].process_ind = "Maybe" =>
                Slice(content, translation_keys_all[n].span[1],
                      translation_keys_all[n].span[2])
                    = Slice(D, spans0[n][1], spans0[n][2])

\* the loop is over, a candidate was replaced, and a 'Maybe' candidate after
\* it has a span that moved
C1_Witness ==
    /\ LoopDone
    /\ NonOverlapping
    /\ modified
    /\ \E n \in Mine : /\ translation_keys_all[n].process_ind = "Maybe"
                       /\ translation_keys_all[n].span # spans0[n]

\* two 'True' candidates of the file with partially overlapping spans
PartialOverlap ==
    \E m, n \in Mine :
        /\ translation_keys_all[m].process_ind = "True"
        /\ translation_keys_all[n].process_ind = "True"
        /\ spans0[m][1] < spans0[n][1]
        /\ spans0[n][1] < spans0[m][2]
        /\ spans0[m][2] < spans0[n][2]

\* C5: overlap rejection.  A batch with two partially overlapping edits,
\* such as (0,5) and (3,8) over a ten-character document, is refused: no
\* edit is applied and the document stays as it was.
C5_OverlapRejected ==
    (pc \in {"replace", "hooks", "write", "done"} /\ PartialOverlap) =>
        /\ content = D
        /\ disk = D
        /\ ~modified

\* the worked example: the file "Hello World today", the candidate greeting
\* at (0,11) to replace and the candidate "today" at (12,17) to keep
WorkedExample ==
    /\ D = "Hello World today"
    /\ Len(translation_keys_all) = 2
    /\ spans0 = << <<0, 11>>, <<12, 17>> >>
    /\ translation_keys_all[1].key = "greeting"
    /\ translation_keys_all[1].process_ind = "True"
    /\ translation_keys_all[2].process_ind = "Maybe"
    /\ Mine = {1, 2}

\* C7: the worked example.  The document becomes "{t('greeting')} today",
\* the span of the observer becomes (16,21), and the new document sliced
\* at that span is "today".
C7_WorkedExample ==
    (LoopDone /\ WorkedExample) =>
        /\ content = "{t('greeting')} today"
        /\ translation_keys_all[2].span = <<16, 21>>
        /\ Slice(content, translation_keys_all[2].span[1],
                 translation_keys_all[2].span[2]) = "today"

\* the worked example after its replacement
C7_Witness == LoopDone /\ WorkedExample /\ modified

\* C7 as stated: the span of the observer becomes (17,22), and the new
\* document sliced at (17,22) is "today".
C7_AsStated ==
    (LoopDone /\ WorkedExample) =>
        /\ content = "{t('greeting')} today"
        /\ translation_keys_all[2].span = <<17, 22>>
        /\ Slice(content, 17, 22) = "today"

(***************************************************************************)
(* Properties of the run on one file                                       *)
(***************************************************************************)
\* candidate n was replaced by the loop of lines 643-655
Consumed(n) ==
    /\ translation_keys_all[n].process_ind = "True"
    /\ \E j \in 1..Len(sorted_list) : j < loop_i /\ sorted_list[j] = n

\* the stored span of candidate n denotes its stored text in the content
SpanDenotesText(n) ==
    Slice(content, translation_keys_all[n].span[1], translation_keys_all[n].span[2])
        = translation_keys_all[n].text

\* C2: registry invariant.  Right after extract_strings_from_file and after
\* each replacement of refactor_component, the stored span of every
\* candidate of the file that no edit has consumed denotes, in the content
\* in memory, exactly the stored text of the candidate.
C2_RegistryInvariant ==
    pc \in {"refactor_begin", "replace"} =>
        \A n \in Mine : ~Consumed(n) => SpanDenotesText(n)

\* the entry of the registry that has the key of entry e
WithKey(reg, e) == reg[IndexOf(reg, e.key)]

\* C3: insertion shift.  When the import statement of length L is prepended
\* (insertion point 0), both ends of the span of every candidate recorded
\* for the file grow by exactly L.
C3_InsertionShift ==
    [][InsertImport =>
        \A n \in Mine :
            WithKey(translation_keys_all', translation_keys_all[n]).span
                = ShiftSpan(translation_keys_all[n].span, Len(import_statement))]_vars

\* the places where add_translation_hooks_with_span_updates inserts a hook,
\* in the coordinates of the content on entry: a position is recorded in the
\* content of its moment, which the hooks inserted before it in the same
\* call may have moved by their length
InsertionPoints ==
    LET ins == add_translation_hooks(content).insertions
    IN  {ins[k].position - j * Len(hook_line) : k \in 1..Len(ins), j \in 0..Len(ins)}

ContainsInsertionPoint(n) ==
    \E q \in InsertionPoints :
        translation_keys_all[n].span[1] < q /\ q < translation_keys_all[n].span[2]

\* C4: one coordinate timeline for the hooks.  When the hooks are added to
\* a content in which the span of every candidate of the file denotes the
\* candidate's text, then afterwards the span of every candidate that holds
\* no insertion point denotes in the new content what it denoted before,
\* however many hooks were inserted.
C4_HooksKeepSpans ==
    [][(AddHooks /\ \A n \in Mine : SpanDenotesText(n)) =>
        \A n \in Mine :
            ~ContainsInsertionPoint(n) =>
                Slice(content', translation_keys_all'[n].span[1],
                      translation_keys_all'[n].span[2])
                    = Slice(content, translation_keys_all[n].span[1],
                            translation_keys_all[n].span[2])]_vars

\* C8: rule 3.  A text that is purely an arrow function is rejected: the
\* registry never holds a candidate with such a text.
C8_PureArrowRejected ==
    \A n \in 1..Len(translation_keys_all) :
        ~(/\ Contains(translation_keys_all[n].text, "=>")
          /\ IsPureArrow(translation_keys_all[n].text))

\* C10: duplicate identity.  A match during extraction leaves every
\* candidate already recorded with its key and its span; a later match of
\* the same text only adds one to the occurrences of its candidate.
C10_FirstMatchKeepsSpan ==
    [][ExtractMatch =>
        \A n \in 1..Len(translation_keys_all) :
            /\ translation_keys_all'[n].key = translation_keys_all[n].key
            /\ translation_keys_all'[n].span = translation_keys_all[n].span
            /\ translation_keys_all'[n].occurrences
                   \in {translation_keys_all[n].occurrences,
                        translation_keys_all[n].occurrences + 1}]_vars

\* C11: leftmost-match tie-break.  Of the matches of different patterns
\* that overlap only the leftmost is kept: after extract_strings_from_file
\* no two candidates of the file have overlapping spans.
C11_NoOverlapAfterExtract ==
    pc = "refactor_begin" =>
        \A m, n \in Mine :
            m # n => ~Overlap(translation_keys_all[m].span, translation_keys_all[n].span)

\* C17: extraction errors are file-scoped.  A file that cannot be read or
\* decoded is skipped: the run is not aborted.
C17_UnreadableFileSkipped == ~readable => pc # "aborted"

\* the hook declaration that add_translation_hooks_with_span_updates inserts
HookDeclaration == "const { t } = useTranslation();"

\* the body of the component of a match, as lines 452-477 delimit it
BodyOf(c, insert_pos) == Slice(c, insert_pos, find_function_end(c, insert_pos - 1))

BodiesOf(c, ms) ==
    {BodyOf(c, InsertPosOf(c, ms[n], Slice(c, ms[n].start, ms[n].end))) :
        n \in {k \in 1..Len(ms) : InsertPosOf(c, ms[k], Slice(c, ms[k].start, ms[k].end)) # -1}}

ComponentBodies(c) == UNION {BodiesOf(c, ComponentFindIter(p, c, 0)) : p \in 1..3}

\* C18: marker coverage.  After refactor_component every component body
\* that holds a replaced 'True' candidate holds the declaration of the
\* useTranslation hook, whether or not the text useTranslation occurred
\* elsewhere in the file before.
C18_MarkerCoverage ==
    pc = "done" =>
        \A body \in ComponentBodies(disk) :
            (\E n \in Mine : /\ translation_keys_all[n].process_ind = "True"
                             /\ Contains(body, ReplacedText(translation_keys_all[n].key)))
                => Contains(body, HookDeclaration)

(***************************************************************************)
(* Properties of the translation passes                                    *)
(***************************************************************************)
\* the table gives the text t for the key
Holds(table, key, t) == HasKey(table, key) /\ table[IndexOf(table, key)].text = t

\* every key of the batch has its source text in the table
BatchIsSource(table) ==
    \A k \in 1..Len(BatchKeys(translation_keys)) :
        Holds(table, translation_keys[k].key, translation_keys[k].text)

\* the turn of the loop of generate_translations on the m-th language was
\* taken
Processed(m) ==
    IF target_languages[m] = default_language
    THEN \A k \in 1..Len(translation_keys) :
             Holds(translations[default_language], translation_keys[k].key,
                   translation_keys[k].text)
    ELSE \E e \in 1..Len(events) : events[e].at = m

\* C12: fallback.  If the translator raises on the batch of a language
\* that is not the default one, every key of the batch has its source text
\* in the table of that language, in memory and in the file written from
\* it, and generate_translations goes on with the languages that remain.
C12_FallbackToSource ==
    \A n \in 1..Len(events) :
        events[n].raised =>
            /\ BatchIsSource(translations[events[n].lang])
            /\ pc = "generate" => lang_i > events[n].at
            /\ pc # "generate" =>
                   /\ \A m \in (events[n].at + 1)..Len(target_languages) : Processed(m)
                   /\ BatchIsSource(locale_files[events[n].lang])

C12_Witness ==
    /\ pc = "refactor_begin"
    /\ translation_keys # <<>>
    /\ \E n, m \in 1..Len(events) :
           /\ events[n].raised
           /\ events[m].at > events[n].at
           /\ ~events[m].raised
           /\ ~BatchIsSource(translations[events[m].lang])

\* C13: complex pass.  When the call of the LLM fails for a key and a
\* language in _create_translation_files, the value written for the key in
\* the file of the language is the source text of the key.
C13_ComplexFallbackToSource ==
    \A f \in failed :
        f[1] \in DOMAIN locale_files =>
            Holds(locale_files[f[1]], f[2], change_dict[IndexOf(change_dict, f[2])].text)

\* the keys of the candidates that the write of the file consumes: the
\* 'True' entries in the simple pass, the changes in the complex pass
ConsumedKeys ==
    IF pc = "write" THEN {translation_keys[n].key : n \in 1..Len(translation_keys)}
    ELSE {change_dict[n].key : n \in 1..Len(change_dict)}

\* the translation of the key into the language is in the table in memory
\* or in the file, or the translator was called for the language
Resolved(key, lang) ==
    \/ HasKey(translations[lang], key)
    \/ lang \in DOMAIN locale_files /\ HasKey(locale_files[lang], key)
    \/ \E e \in 1..Len(events) : events[e].lang = lang

\* C14: ordering.  The file is not rewritten by an edit that consumes a
\* candidate until the translations of the key of the candidate are
\* resolved for all target languages, in the simple and in the complex pass.
C14_TranslationsBeforeRewrite ==
    [][disk' # disk =>
           \A key \in ConsumedKeys :
               \A n \in 1..Len(target_languages) : Resolved(key, target_languages[n])]_vars

\* the text of the candidate with the key, as extraction recorded it
SourceText(key) == translation_keys_all[IndexOf(translation_keys_all, key)].text

\* C19: default-language identity.  In the table that the whole run, the
\* simple pass and then the complex pass, leaves for the default language,
\* every key has its untranslated source text.
C19_DefaultLanguageIdentity ==
    (pc = "finished" /\ default_language \in DOMAIN locale_files) =>
        \A n \in 1..Len(locale_files[default_language]) :
            locale_files[default_language][n].text
                = SourceText(locale_files[default_language][n].key)

(***************************************************************************)
(* Properties of the applicator                                            *)
(***************************************************************************)
\* C15: backup before destructive write.  With backup and without dry_run,
\* every overwrite of a file that exists, by _apply_file_changes or by
\* _add_i18n_import_to_file, comes with a backup copy that holds the
\* content the file had before the overwrite.
C15_BackupBeforeOverwrite ==
    [][(backup /\ ~dry_run) =>
           \A path \in DOMAIN fs :
               fs'[path] # fs[path] =>
                   /\ BackupPath(path) \in DOMAIN fs'
                   /\ fs'[BackupPath(path)] = fs[path]]_vars

\* C16: dry run.  With dry_run no step of apply_i18n_changes creates or
\* modifies a file: the source files, the backups and the translation
\* files stay as they are.
C16_DryRunWritesNothing ==
    [][dry_run => (fs' = fs /\ locale_files' = locale_files)]_vars

C16_Witness ==
    /\ dry_run
    /\ pc = "applied"
    /\ changes_applied # <<>>
    /\ analysis_results.files_needing_changes # <<>>
    /\ ~HasI18nImport(fs[FullPath(project_path, AppFile)])
    /\ \E l \in DOMAIN translation_files :
           translation_files[l] # ExistingTranslations(locale_files, l)

\* the places where the text occurs in the content
Occurrences(c, t) == {p \in 0..(Len(c) - Len(t)) : StartsAt(c, t, p)}

LastApplied == changes_applied[Len(changes_applied)]

\* C20: duplicate text in a file.  A change of _apply_file_changes whose
\* text occurs in the content replaces the first occurrence, in the order
\* of the content at that moment, and leaves the rest of the content, every
\* other occurrence included, as it is.
C20_FirstOccurrenceOnly ==
    [][changes_applied' # changes_applied =>
           LET t == sorted_list[loop_i].text
               first == Min(Occurrences(content, t))
           IN  content' = Slice(content, 0, first)
                              \o GenerateI18nReplacement(sorted_list[loop_i])
                              \o Slice(content, first + Len(t), Len(content))]_vars

C20_Witness ==
    /\ pc = "apply_change"
    /\ changes_applied # <<>>
    /\ LastApplied.original = "Hello"
    /\ Contains(content, LastApplied.replacement)
    /\ Contains(content, "Hello")
    /\ Find(content, LastApplied.replacement, 0) < Find(content, "Hello", 0)

(***************************************************************************)
(* Properties of the hook insertion                                        *)
(***************************************************************************)
\* C6: idempotence of the structural insertion.  add_translation_hooks run
\* again on a content it has patched inserts nothing and returns the
\* content as it was.
C6_HooksIdempotent ==
    [][HooksAgain => (content' = content /\ ~modified')]_vars

\* C25: implicit-return arrow components are skipped.  A call of
\* add_translation_hooks inserts nothing on behalf of the components that
\* are arrow functions with an implicit return: the content it returns is
\* the content the turns for the components with a block body left.
C25_ImplicitReturnSkipped ==
    [][(HooksFirst \/ HooksAgain) => content' = BlockHooks(content).content]_vars

(***************************************************************************)
(* Properties of refactor_component towards the other files                *)
(***************************************************************************)
\* the candidates of the registry reg that files other than file own
OfOtherFiles(reg, file) == {reg[n] : n \in {m \in 1..Len(reg) : reg[m].file # file}}

\* C21: per-file isolation.  No step of refactor_component on the file
\* file_path changes the span, the text, the classification or the
\* occurrence count of a candidate that another file owns: every such
\* candidate is in the registry after the step as it was before it.
C21_PerFileIsolation ==
    [][OfOtherFiles(translation_keys_all, file_path)
           \subseteq OfOtherFiles(translation_keys_all', file_path)]_vars

(***************************************************************************)
(* Properties of _update_files                                             *)
(***************************************************************************)
\* the spans of the changes are not empty and no two share a character
DisjointSpans(chs) ==
    /\ \A n \in 1..Len(chs) : chs[n].span[1] < chs[n].span[2]
    /\ \A m, n \in 1..Len(chs) : m # n => ~Overlap(chs[m].span, chs[n].span)

\* The text c with the span of every change of the set E replaced by its
\* code at once: the text up to the first span at or after pos, its code,
\* and so on from the end of that span.
RECURSIVE ReplacedAtOnce(_, _, _)
ReplacedAtOnce(c, E, pos) ==
    IF E = {} THEN Slice(c, pos, Len(c))
    ELSE LET e == CHOOSE x \in E : \A y \in E : x.span[1] <= y.span[1]
         IN  Slice(c, pos, e.span[1]) \o e.code \o ReplacedAtOnce(c, E \ {e}, e.span[2])

\* the changes chs as a set
ChangeSet(chs) == {chs[n] : n \in 1..Len(chs)}

\* C22: ascending sweep with running delta.  Whenever _update_files writes
\* a file whose batch of changes has pairwise non-overlapping spans, the
\* text it writes is the text it read with every change's span replaced by
\* the change's code at once, in whatever order the changes were supplied.
C22_SweepIsSimultaneous ==
    \A n \in 1..Len(events) :
        (events[n].op = "span_write" /\ DisjointSpans(events[n].changes)) =>
            SpanSweep(events[n].original_text, events[n].changes)
                = ReplacedAtOnce(events[n].original_text, ChangeSet(events[n].changes), 0)

\* a file was written from two changes that were supplied with the later
\* span first, and the first change moved the span of the second
C22_Witness ==
    \E n \in 1..Len(events) :
        /\ events[n].op = "span_write"
        /\ DisjointSpans(events[n].changes)
        /\ Len(events[n].changes) = 2
        /\ events[n].changes[1].span[1] > events[n].changes[2].span[1]
        /\ Len(events[n].changes[2].code) # events[n].changes[2].span[2] - events[n].changes[2].span[1]
        /\ fs[events[n].file] # events[n].original_text

\* the files of the first n events on which op happened
FilesWith(op, n) == {events[m].file : m \in {k \in 1..n : events[k].op = op}}

\* C23: span edits are applied to the content their spans refer to.  Every
\* call of _update_single_file on a file with pending span edits comes
\* after the span edits of that file have been applied.
C23_SpanEditsBeforeRewrite ==
    \A n \in 1..Len(events) :
        events[n].op = "update_single_file" => events[n].file \in FilesWith("span_write", n)

(***************************************************************************)
(* Properties of find_function_end                                         *)
(***************************************************************************)
\* how many of the characters c[a], ..., c[b] are the character ch
CountOf(c, ch, a, b) == Cardinality({i \in a..b : At(c, i) = ch})

\* the nesting depth behind c[j], counted from the opening brace at c[from]
DepthAt(c, from, j) == CountOf(c, "{", from, j) - CountOf(c, "}", from, j)

\* the indices behind from at which the depth is zero
Closings(c, from) == {j \in (from + 1)..(Len(c) - 1) : DepthAt(c, from, j) = 0}

\* C24: balanced-delimiter scan.  For the index of an opening brace,
\* find_function_end returns the index immediately after the closing brace
\* at which the nesting depth counted from that opening brace first returns
\* to zero, and len(content) if the depth never returns to zero.
C24_BalancedScan ==
    pc = "found" =>
        end_pos = IF Closings(content, start_pos) = {} THEN Len(content)
                  ELSE Min(Closings(content, start_pos)) + 1

\* the scan passed a nested pair of braces and stopped behind the closing
\* brace of the outer pair, before the end of the content
C24_Witness ==
    /\ pc = "found"
    /\ end_pos < Len(content)
    /\ \E j \in (start_pos + 1)..(end_pos - 1) : DepthAt(content, start_pos, j) = 2

(***************************************************************************)
(* Properties of _add_dependencies_recursively                             *)
(***************************************************************************)
\* the symbols of symbols_dict among the dependencies of the symbols of S
DependenciesOf(S) ==
    {dep \in DOMAIN symbols_dict :
        \E key \in S : \E n \in 1..Len(Dependencies(key)) : Dependencies(key)[n] = dep}

\* the symbols reachable from the symbols of S through dependencies
RECURSIVE Reachable(_)
Reachable(S) ==
    IF DependenciesOf(S) \subseteq S THEN S ELSE Reachable(S \cup DependenciesOf(S))

KeysOf(ctx) == {ctx[n] : n \in 1..Len(ctx)}

\* C26: recursive dependency context.  The context that
\* _add_dependencies_recursively returns holds every symbol of symbols_dict
\* that is reachable from the entries of the context it was given through
\* a chain of dependencies of any length.
C26_TransitiveClosure ==
    pc = "returned" => Reachable(KeysOf(context0)) \subseteq KeysOf(context_keys)

\* C27: _add_dependencies_recursively terminates for every symbols_dict,
\* also one whose dependencies hold cycles or self-references: the
\* dependencies of a symbol are gone through at most once, and the method
\* returns.
C27_Terminates ==
    /\ [](\A m, n \in 1..Len(expanded) : m # n => expanded[m] # expanded[n])
    /\ <>(pc = "returned")

\* the method has returned after it went through the dependencies of a
\* symbol that depends on itself through another symbol
C27_Witness ==
    /\ pc = "returned"
    /\ \E n \in 1..Len(expanded) :
           /\ expanded[n] \notin DependenciesOf({expanded[n]})
           /\ expanded[n] \in Reachable(DependenciesOf({expanded[n]}))

(***************************************************************************)
(* Properties of analyze_project_i18n                                      *)
(***************************************************************************)
\* the positions of the run inside analyze_i18n_needs
InAnalysis == {"start", "prepare", "call_llm", "api_call", "fallback", "process",
               "cross_reference"}

\* C28: timeout handling.  If the alarm fired at any point while
\* analyze_i18n_needs was running, the LLM call included, then
\* analyze_project_i18n returns the timeout result (no required changes,
\* summary.timeout true, metadata.reason 'timeout') with the alarm
\* cancelled.
C28_TimeoutResult ==
    (pc = "returned" /\ fired_at \in InAnalysis) =>
        (analysis = TimeoutResult /\ alarm = "off")

(***************************************************************************)
(* Properties of the merges into the translation tables                    *)
(***************************************************************************)
\* the entries of the table old are entries of the table new, and what new
\* has besides is under keys old did not have
KeptIn(old, new) ==
    /\ \A n \in 1..Len(old) : \E m \in 1..Len(new) : new[m] = old[n]
    /\ \A m \in 1..Len(new) :
           (\E n \in 1..Len(old) : old[n] = new[m]) \/ ~HasKey(old, new[m].key)

\* C29: existing translations are never overwritten by a merge.  For every
\* language, a key of the loaded table keeps its value through
\* _add_translations_to_files of the applicator and through the turn of
\* _create_translation_files of the processor for the language; only keys
\* that were absent are added.
C29_ExistingKept ==
    [][/\ AddTranslationsToFiles =>
              \A l \in DOMAIN translation_files :
                  KeptIn(translation_files[l], translation_files'[l])
       /\ ComplexTranslations =>
              KeptIn(ExistingTranslations(locale_files, target_languages[lang_i]),
                     locale_files'[target_languages[lang_i]])]_vars

\* The applicator has merged a new value for the key 'hello', which the
\* English table had as 'Hi there', and a key into the table of a language
\* that had none.
C29_Witness ==
    /\ pc = "apply_source_file_changes"
    /\ "en" \in DOMAIN locale_files
    /\ HasKey(locale_files["en"], "hello")
    /\ \E n \in 1..Len(analysis_results.required_changes) :
           /\ analysis_results.required_changes[n].suggested_key = "common.hello"
           /\ analysis_results.required_changes[n].text # "Hi there"
    /\ \E n \in 1..Len(translation_files["en"]) :
           translation_files["en"][n] = KeyText("hello", "Hi there")
    /\ \E l \in DOMAIN translation_files \ {"en"} : HasKey(translation_files[l], "hello")

(***************************************************************************)
(* Properties of generate_translations                                     *)
(***************************************************************************)
\* generate_translations has returned
Generated == (pc = "generate" /\ lang_i > Len(target_languages)) \/ pc = "refactor_begin"

\* C30: translation tables are complete.  After generate_translations the
\* table of every target language has an entry for every extracted
\* translation key, for any number of keys and whether each call of the
\* translator succeeds or fails.
C30_TablesComplete ==
    Generated =>
        \A n \in 1..Len(target_languages) : \A k \in 1..Len(translation_keys) :
            HasKey(translations[target_languages[n]], translation_keys[k].key)

=============================================================================
